---- MODULE Spec2Model ----
(***************************************************************************)
(* Storage layer (MemStorage, DatabaseStorage) and HTTP route layer of the *)
(* short-video platform, as a sequential state machine: every action is    *)
(* one IStorage call or one HTTP request, run to completion.               *)
(*                                                                         *)
(* The storage state is one record `store`; each IStorage method is an     *)
(* operator from (store, arguments) to [s |-> new store, val |-> result],  *)
(* once for MemStorage and once for DatabaseStorage.  `backend` is the     *)
(* implementation bound to the exported `storage` constant.                *)
(***************************************************************************)
EXTENDS Integers, Sequences, FiniteSets, TLC

\* ------------------------------------------------------------------ bounds
MaxUsers    == 2      \* users ever created
MaxFollows  == 2      \* Follow rows ever created
MaxVideos   == 2      \* videos ever created
MaxComments == 2      \* comments ever created
MaxAuthors  == 1      \* users registered before the comments are written
MaxRows     == 3      \* rows of a stored comment table given to getVideoComments
MaxTime     == 2      \* clock values (createdAt)
MaxViews    == 2      \* view requests served
MaxAdViews  == 6      \* AdView rows ever created
MaxSessions == 1      \* browser sessions (clientId) polling for ads
MaxAdRows   == 2      \* AdView rows recorded by signed-in and anonymous viewers
MaxLimit    == 2      \* largest limit / offset of a getVideos call
MaxUploads  == 2      \* files written by multer
MaxRequests == 2      \* requests in flight at once
MaxFeed     == 6      \* videos the Home page has fetched

\* -------------------------------------------------------------- constants
Null == 0             \* null / undefined id; ids start at 1
AdDailyCap == 5       \* hard daily cap of ad views per session
AdChanceTenths == 2   \* Math.random() < 0.2, in tenths
DurationLimit == 60   \* longest video accepted, in seconds
ShowAdChanceTenths == 2   \* useState(0.2) of useAds, in tenths
AdEvery == 3          \* an ad may follow every 3rd video of the feed

UserIds    == 1 .. MaxUsers
VideoIds   == 1 .. MaxVideos
CommentIds == 1 .. MaxComments
Backends   == {"mem", "db"}

VARIABLES
    backend,   \* which IStorage implementation `storage` is
    store,     \* the storage contents (MemStorage.data and id counters / the tables and sequences)
    now,       \* the wall clock (new Date(), defaultNow())
    res,       \* the last call: operation, HTTP status (0 for a storage call), returned value
    calls,     \* the storage calls in flight: where each stands and what it has read
    client     \* the Home page of one browser: its React state and what it last rendered

vars == <<backend, store, now, res, calls, client>>

EmptyStore ==
    [ users            |-> << >>,   \* id -> [followersCount, followingCount]
      videos           |-> << >>,   \* array / table of video rows
      comments         |-> << >>,   \* array / table of comment rows
      follows          |-> {},      \* Follow rows
      ads              |-> << >>,   \* array / table of ad ids
      adViews          |-> << >>,      \* AdView rows
      userIdCounter    |-> 1,
      videoIdCounter   |-> 1,
      commentIdCounter |-> 1,
      followIdCounter  |-> 1,
      adViewIdCounter  |-> 1,
      files            |-> {},      \* the files of server/videos
      uploadCounter    |-> 1 ]      \* numbers the file names multer hands out

NoRes == [op |-> "none", status |-> 0, val |-> Null]

\* the requests the server may be handling at once
Requests == 1 .. MaxRequests

\* a call that has not started
IdleCall == [pc |-> "idle", method |-> "none", id |-> Null, value |-> 0]

NoCalls == [r \in Requests |-> IdleCall]

\* the Home page before its first render: useState([]), useState(false)
NoClient ==
    [ allVideos      |-> << >>,    \* useState<VideoWithUser[]>([]), as video ids
      adAlreadyShown |-> FALSE,    \* useState(false) of useAds
      queued         |-> FALSE,    \* setAdAlreadyShown(true) was called in the last render
      videosWithAds  |-> << >>,    \* the sequence of the last render
      shown          |-> {} ]      \* the indexes at which showAd() returned true in it

Result(op, status, val) == [op |-> op, status |-> status, val |-> val]

Init ==
    /\ backend \in Backends
    /\ store = EmptyStore
    /\ now = 1
    /\ res = NoRes
    /\ calls = NoCalls
    /\ client = NoClient

Max(a, b) == IF a >= b THEN a ELSE b
Min(a, b) == IF a <= b THEN a ELSE b

\* ------------------------------------------------------------------ users
UserExists(s, id) == id \in DOMAIN s.users

\* db.select().from(users).where(eq(users.id, id)): the array of matching rows
SelectUser(s, id) == IF UserExists(s, id) THEN <<s.users[id]>> ELSE << >>

createUser(s) ==
    LET id == s.userIdCounter
        newUser == [id |-> id, followersCount |-> 0, followingCount |-> 0]
    IN  [ s   |-> [s EXCEPT !.users = [u \in DOMAIN s.users \cup {id} |->
                                          IF u = id THEN newUser ELSE s.users[u]],
                            !.userIdCounter = id + 1],
          val |-> newUser ]

\* ---------------------------------------------------------------- follows
FollowRows(s, followerId, followingId) ==
    {f \in s.follows : f.followerId = followerId /\ f.followingId = followingId}

FirstRow(rows) == CHOOSE f \in rows : \A g \in rows : f.id <= g.id

NewFollow(s, followerId, followingId) ==
    [id |-> s.followIdCounter, followerId |-> followerId, followingId |-> followingId]

\* variant: the existence check is missing, every call inserts a row
MemStorage_follow_NoExistingCheck(s, followerId, followingId) ==
    LET newFollow == NewFollow(s, followerId, followingId)
        users1 == IF UserExists(s, followerId)
                  THEN [s.users EXCEPT ![followerId].followingCount = @ + 1]
                  ELSE s.users
        users2 == IF UserExists(s, followingId)
                  THEN [users1 EXCEPT ![followingId].followersCount = @ + 1]
                  ELSE users1
    IN  [ s   |-> [s EXCEPT !.follows = @ \cup {newFollow},
                            !.followIdCounter = @ + 1,
                            !.users = users2],
          val |-> newFollow ]

MemStorage_follow(s, followerId, followingId) ==
    LET existing == FollowRows(s, followerId, followingId) IN
    IF existing # {} THEN [s |-> s, val |-> FirstRow(existing)]
    ELSE
      LET newFollow == NewFollow(s, followerId, followingId)
          \* follower.followingCount = (follower.followingCount || 0) + 1
          users1 == IF UserExists(s, followerId)
                    THEN [s.users EXCEPT ![followerId].followingCount = @ + 1]
                    ELSE s.users
          \* following.followersCount = (following.followersCount || 0) + 1
          users2 == IF UserExists(s, followingId)
                    THEN [users1 EXCEPT ![followingId].followersCount = @ + 1]
                    ELSE users1
      IN  [ s   |-> [s EXCEPT !.follows = @ \cup {newFollow},
                              !.followIdCounter = @ + 1,
                              !.users = users2],
            val |-> newFollow ]

\* variant: the followee's followersCount is not updated
DatabaseStorage_follow_FollowerOnly(s, followerId, followingId) ==
    LET existing == FollowRows(s, followerId, followingId) IN
    IF existing # {} THEN [s |-> s, val |-> FirstRow(existing)]
    ELSE
      LET follower  == SelectUser(s, followerId)
          users1 == IF Len(follower) > 0
                    THEN [s.users EXCEPT ![followerId].followingCount = follower[1].followingCount + 1]
                    ELSE s.users
          newFollow == NewFollow(s, followerId, followingId)
      IN  [ s   |-> [s EXCEPT !.users = users1,
                              !.follows = @ \cup {newFollow},
                              !.followIdCounter = @ + 1],
            val |-> newFollow ]

DatabaseStorage_follow(s, followerId, followingId) ==
    LET existing == FollowRows(s, followerId, followingId) IN
    IF existing # {} THEN [s |-> s, val |-> FirstRow(existing)]
    ELSE
      LET \* both rows are read (FOR UPDATE) before either is written
          follower  == SelectUser(s, followerId)
          following == SelectUser(s, followingId)
          users1 == IF Len(follower) > 0
                    THEN [s.users EXCEPT ![followerId].followingCount = follower[1].followingCount + 1]
                    ELSE s.users
          users2 == IF Len(following) > 0
                    THEN [users1 EXCEPT ![followingId].followersCount = following[1].followersCount + 1]
                    ELSE users1
          newFollow == NewFollow(s, followerId, followingId)
      IN  [ s   |-> [s EXCEPT !.users = users2,
                              !.follows = @ \cup {newFollow},
                              !.followIdCounter = @ + 1],
            val |-> newFollow ]

\* variant: the counters are decremented without the > 0 test
MemStorage_unfollow_NoFloor(s, followerId, followingId) ==
    LET followToRemove == FollowRows(s, followerId, followingId) IN
    IF followToRemove = {} THEN [s |-> s, val |-> FALSE]
    ELSE
      LET follows1 == s.follows \ followToRemove
          users1 == IF UserExists(s, followerId)
                    THEN [s.users EXCEPT ![followerId].followingCount = @ - 1]
                    ELSE s.users
          users2 == IF UserExists(s, followingId)
                    THEN [users1 EXCEPT ![followingId].followersCount = @ - 1]
                    ELSE users1
      IN  [ s   |-> [s EXCEPT !.follows = follows1, !.users = users2],
            val |-> Cardinality(follows1) # Cardinality(s.follows) ]

MemStorage_unfollow(s, followerId, followingId) ==
    LET followToRemove == FollowRows(s, followerId, followingId) IN
    IF followToRemove = {} THEN [s |-> s, val |-> FALSE]
    ELSE
      LET follows1 == s.follows \ followToRemove
          users1 == IF UserExists(s, followerId) /\ s.users[followerId].followingCount > 0
                    THEN [s.users EXCEPT ![followerId].followingCount = @ - 1]
                    ELSE s.users
          users2 == IF UserExists(s, followingId) /\ users1[followingId].followersCount > 0
                    THEN [users1 EXCEPT ![followingId].followersCount = @ - 1]
                    ELSE users1
      IN  [ s   |-> [s EXCEPT !.follows = follows1, !.users = users2],
            val |-> Cardinality(follows1) # Cardinality(s.follows) ]

DatabaseStorage_unfollow(s, followerId, followingId) ==
    LET follow == FollowRows(s, followerId, followingId) IN
    IF follow = {} THEN [s |-> s, val |-> FALSE]
    ELSE
      LET follower  == SelectUser(s, followerId)
          following == SelectUser(s, followingId)
          users1 == IF Len(follower) > 0 /\ follower[1].followingCount > 0
                    THEN [s.users EXCEPT ![followerId].followingCount = follower[1].followingCount - 1]
                    ELSE s.users
          users2 == IF Len(following) > 0 /\ following[1].followersCount > 0
                    THEN [users1 EXCEPT ![followingId].followersCount = following[1].followersCount - 1]
                    ELSE users1
      IN  [ s   |-> [s EXCEPT !.users = users2, !.follows = @ \ follow],
            val |-> TRUE ]

\* ----------------------------------------------------------- array helpers
\* Array.prototype.findIndex by id: 0 when absent
IndexOfId(rows, id) ==
    IF \E i \in DOMAIN rows : rows[i].id = id
    THEN CHOOSE i \in DOMAIN rows : rows[i].id = id /\ \A j \in 1 .. i - 1 : rows[j].id # id
    ELSE 0

HasId(rows, id) == \E i \in DOMAIN rows : rows[i].id = id

RowOfId(rows, id) == rows[IndexOfId(rows, id)]

\* the two orders the code sorts in, by createdAt
NewestFirst == "dateB - dateA"
OldestFirst == "dateA - dateB"

\* the comparator of an order: negative when a comes first
Compare(order, a, b) ==
    IF order = NewestFirst THEN b.createdAt - a.createdAt ELSE a.createdAt - b.createdAt

\* Array.prototype.sort: stable, rows comparing equal keep their order
Sort(rows, order) ==
    LET \* the rows that come before rows[i]: smaller ones, and equal ones that preceded it
        Rank(i) == Cardinality({j \in DOMAIN rows :
                       \/ Compare(order, rows[j], rows[i]) < 0
                       \/ (Compare(order, rows[j], rows[i]) = 0 /\ j < i)}) + 1
    IN  [k \in DOMAIN rows |-> rows[CHOOSE i \in DOMAIN rows : Rank(i) = k]]

\* Array.prototype.slice(from, to) for 0 <= from <= to
Slice(rows, from, to) == SubSeq(rows, from + 1, Min(to, Len(rows)))

\* SQL ORDER BY: every arrangement of the rows that respects the order
\* (rows with equal keys come in an unspecified order)
OrderBy(rows, order) ==
    { [i \in DOMAIN rows |-> rows[p[i]]] : p \in
        { q \in Permutations(DOMAIN rows) :
            \A i, j \in DOMAIN rows :
                i < j => Compare(order, rows[q[i]], rows[q[j]]) <= 0 } }

\* SQL LIMIT / OFFSET
LimitOffset(rows, limit, offset) == SubSeq(rows, offset + 1, Min(offset + limit, Len(rows)))

\* the author projection {id, username, name, avatar}; id 0 is the 'unknown' sentinel
UnknownUser == 0

WithUser(s, row) ==
    [row EXCEPT !.user = IF UserExists(s, row.userId) THEN row.userId ELSE UnknownUser]

\* ----------------------------------------------------------------- videos
NewVideo(s, userId, isPrivate) ==
    [ id |-> s.videoIdCounter, userId |-> userId, isPrivate |-> isPrivate,
      views |-> 0, likes |-> 0, dislikes |-> 0, commentsCount |-> 0,
      createdAt |-> now, user |-> Null, videoUrl |-> Null, thumbnailUrl |-> Null ]

createVideo(s, userId, isPrivate) ==
    LET newVideo == NewVideo(s, userId, isPrivate) IN
    [ s   |-> [s EXCEPT !.videos = Append(@, newVideo), !.videoIdCounter = @ + 1],
      val |-> newVideo ]

\* createVideo for the data of an upload: the row carries the two file urls
createVideoOf(s, userId, isPrivate, videoUrl, thumbnailUrl) ==
    LET newVideo == [NewVideo(s, userId, isPrivate) EXCEPT
                        !.videoUrl = videoUrl, !.thumbnailUrl = thumbnailUrl] IN
    [ s   |-> [s EXCEPT !.videos = Append(@, newVideo), !.videoIdCounter = @ + 1],
      val |-> newVideo ]

\* getVideoWithUser: undefined (<< >>) when the video or its user is missing
getVideoWithUser(s, id) ==
    IF HasId(s.videos, id) /\ UserExists(s, RowOfId(s.videos, id).userId)
    THEN <<WithUser(s, RowOfId(s.videos, id))>>
    ELSE << >>

\* the possible outcomes [s, val] of getVideos(limit, offset)
\* variant: slice(offset, limit) instead of slice(offset, offset + limit)
MemStorage_getVideos_SliceToLimit(s, limit, offset) ==
    LET sorted == Sort(s.videos, NewestFirst)
        page   == Slice(sorted, offset, limit)
    IN  { [ s   |-> [s EXCEPT !.videos = sorted],
            val |-> [i \in DOMAIN page |-> WithUser(s, page[i])] ] }

MemStorage_getVideos(s, limit, offset) ==
    LET sorted == Sort(s.videos, NewestFirst)        \* sorts this.data.videos in place
        page   == Slice(sorted, offset, offset + limit)
    IN  { [ s   |-> [s EXCEPT !.videos = sorted],
            val |-> [i \in DOMAIN page |-> WithUser(s, page[i])] ] }

DatabaseStorage_getVideos(s, limit, offset) ==
    LET joined == SelectSeq(s.videos, LAMBDA v : UserExists(s, v.userId))   \* innerJoin(users)
    IN  { [ s   |-> s,
            val |-> LET page == LimitOffset(ordered, limit, offset)
                    IN  [i \in DOMAIN page |-> WithUser(s, page[i])] ]
          : ordered \in OrderBy(joined, NewestFirst) }

\* variant: the likes counter is incremented instead of views
MemStorage_incrementVideoViews_Likes(s, id) ==
    IF ~HasId(s.videos, id) THEN [s |-> s, val |-> FALSE]
    ELSE [ s   |-> [s EXCEPT !.videos[IndexOfId(s.videos, id)].likes = @ + 1],
           val |-> TRUE ]

MemStorage_incrementVideoViews(s, id) ==
    IF ~HasId(s.videos, id) THEN [s |-> s, val |-> FALSE]
    ELSE [ s   |-> [s EXCEPT !.videos[IndexOfId(s.videos, id)].views = @ + 1],
           val |-> TRUE ]

DatabaseStorage_incrementVideoViews(s, id) ==
    IF ~HasId(s.videos, id) THEN [s |-> s, val |-> FALSE]
    ELSE LET video == RowOfId(s.videos, id) IN
         [ s   |-> [s EXCEPT !.videos[IndexOfId(s.videos, id)].views = video.views + 1],
           val |-> TRUE ]

\* --------------------------------------------------------------- comments
NewComment(s, videoId, userId, parentId) ==
    [ id |-> s.commentIdCounter, videoId |-> videoId, userId |-> userId,
      parentId |-> parentId, likes |-> 0, createdAt |-> now ]

MemStorage_createComment(s, videoId, userId, parentId) ==
    LET newComment == NewComment(s, videoId, userId, parentId)
        videos1 == IF HasId(s.videos, videoId)
                   THEN [s.videos EXCEPT ![IndexOfId(s.videos, videoId)].commentsCount = @ + 1]
                   ELSE s.videos
    IN  [ s   |-> [s EXCEPT !.comments = Append(@, newComment),
                            !.commentIdCounter = @ + 1,
                            !.videos = videos1],
          val |-> newComment ]

DatabaseStorage_createComment(s, videoId, userId, parentId) ==
    LET video   == SelectSeq(s.videos, LAMBDA v : v.id = videoId)
        videos1 == IF Len(video) > 0
                   THEN [s.videos EXCEPT ![IndexOfId(s.videos, videoId)].commentsCount =
                                              video[1].commentsCount + 1]
                   ELSE s.videos
        comment == NewComment(s, videoId, userId, parentId)
    IN  [ s   |-> [s EXCEPT !.videos = videos1,
                            !.comments = Append(@, comment),
                            !.commentIdCounter = @ + 1],
          val |-> comment ]

\* [id, ...replies.map(r => r.id)]: the comment's id, then the id of every row
\* whose parentId is id (the comment itself again when it is its own parent)
AllCommentIds(s, id) ==
    LET replies == SelectSeq(s.comments, LAMBDA c : c.parentId = id)
    IN  <<id>> \o [i \in DOMAIN replies |-> replies[i].id]

Includes(arr, x) == \E i \in DOMAIN arr : arr[i] = x

\* variant: the count is lowered by one whatever the number of rows removed
DatabaseStorage_deleteComment_MinusOne(s, id) ==
    IF ~HasId(s.comments, id) THEN [s |-> s, val |-> FALSE]
    ELSE
      LET comment == RowOfId(s.comments, id)
          allCommentIds == AllCommentIds(s, id)
          video   == SelectSeq(s.videos, LAMBDA v : v.id = comment.videoId)
          videos1 == IF Len(video) > 0
                     THEN [s.videos EXCEPT ![IndexOfId(s.videos, comment.videoId)].commentsCount =
                              Max(0, video[1].commentsCount - 1)]
                     ELSE s.videos
      IN  [ s   |-> [s EXCEPT !.videos = videos1,
                              !.comments = SelectSeq(@, LAMBDA c : ~Includes(allCommentIds, c.id))],
            val |-> TRUE ]

MemStorage_deleteComment(s, id) ==
    IF ~HasId(s.comments, id) THEN [s |-> s, val |-> FALSE]
    ELSE
      LET comment == RowOfId(s.comments, id)
          allCommentIds == AllCommentIds(s, id)
          comments1 == SelectSeq(s.comments, LAMBDA c : ~Includes(allCommentIds, c.id))
          videos1 == IF HasId(s.videos, comment.videoId)
                     THEN [s.videos EXCEPT ![IndexOfId(s.videos, comment.videoId)].commentsCount =
                              IF @ - Len(allCommentIds) < 0 THEN 0
                              ELSE @ - Len(allCommentIds)]
                     ELSE s.videos
      IN  [ s   |-> [s EXCEPT !.comments = comments1, !.videos = videos1],
            val |-> Len(comments1) # Len(s.comments) ]

DatabaseStorage_deleteComment(s, id) ==
    IF ~HasId(s.comments, id) THEN [s |-> s, val |-> FALSE]
    ELSE
      LET comment == RowOfId(s.comments, id)
          allCommentIds == AllCommentIds(s, id)
          video   == SelectSeq(s.videos, LAMBDA v : v.id = comment.videoId)
          videos1 == IF Len(video) > 0
                     THEN [s.videos EXCEPT ![IndexOfId(s.videos, comment.videoId)].commentsCount =
                              Max(0, video[1].commentsCount - Len(allCommentIds))]
                     ELSE s.videos
      IN  [ s   |-> [s EXCEPT !.videos = videos1,
                              !.comments = SelectSeq(@, LAMBDA c : ~Includes(allCommentIds, c.id))],
            val |-> TRUE ]

\* a comment with its author projection and its list of replies
CommentWithUser(s, c, replies) ==
    [ id |-> c.id, videoId |-> c.videoId, userId |-> c.userId, parentId |-> c.parentId,
      likes |-> c.likes, createdAt |-> c.createdAt,
      user |-> IF UserExists(s, c.userId) THEN c.userId ELSE UnknownUser,
      replies |-> replies ]

\* variant: the replies are sorted newest first, like the top level
MemStorage_getVideoComments_RepliesNewestFirst(s, videoId) ==
    LET topLevelComments ==
            Sort(SelectSeq(s.comments, LAMBDA c : c.videoId = videoId /\ c.parentId = Null),
                 NewestFirst)
        replies == SelectSeq(s.comments, LAMBDA c : c.videoId = videoId /\ c.parentId # Null)
        CommentReplies(comment) ==
            LET rs == Sort(SelectSeq(replies, LAMBDA r : r.parentId = comment.id), NewestFirst)
            IN  [i \in DOMAIN rs |-> CommentWithUser(s, rs[i], << >>)]
    IN  { [ s   |-> s,
            val |-> [i \in DOMAIN topLevelComments |->
                       CommentWithUser(s, topLevelComments[i],
                                       CommentReplies(topLevelComments[i]))] ] }

\* the possible outcomes [s, val] of getVideoComments(videoId)
MemStorage_getVideoComments(s, videoId) ==
    LET topLevelComments ==
            Sort(SelectSeq(s.comments, LAMBDA c : c.videoId = videoId /\ c.parentId = Null),
                 NewestFirst)
        replies == SelectSeq(s.comments, LAMBDA c : c.videoId = videoId /\ c.parentId # Null)
        CommentReplies(comment) ==
            LET rs == Sort(SelectSeq(replies, LAMBDA r : r.parentId = comment.id), OldestFirst)
            IN  [i \in DOMAIN rs |-> CommentWithUser(s, rs[i], << >>)]
    IN  { [ s   |-> s,
            val |-> [i \in DOMAIN topLevelComments |->
                       CommentWithUser(s, topLevelComments[i],
                                       CommentReplies(topLevelComments[i]))] ] }

\* variant: every selected row is put at the top level, replies included
DatabaseStorage_getVideoComments_AllTopLevel(s, videoId) ==
    LET \* innerJoin(users) ... where(eq(comments.videoId, videoId))
        joined == SelectSeq(s.comments,
                            LAMBDA c : c.videoId = videoId /\ UserExists(s, c.userId))
        Tree(allComments) ==
            LET \* Map iteration order is insertion order
                topLevel == allComments
                RepliesOf(parentId) ==
                    LET rs == Sort(SelectSeq(allComments,
                                             LAMBDA c : c.parentId # Null /\ c.parentId = parentId),
                                   OldestFirst)
                    IN  [i \in DOMAIN rs |-> CommentWithUser(s, rs[i], << >>)]
            IN  [i \in DOMAIN topLevel |->
                   CommentWithUser(s, topLevel[i], RepliesOf(topLevel[i].id))]
    IN  { [s |-> s, val |-> Tree(allComments)] : allComments \in OrderBy(joined, NewestFirst) }

DatabaseStorage_getVideoComments(s, videoId) ==
    LET \* innerJoin(users) ... where(eq(comments.videoId, videoId))
        joined == SelectSeq(s.comments,
                            LAMBDA c : c.videoId = videoId /\ UserExists(s, c.userId))
        Tree(allComments) ==
            LET \* Map iteration order is insertion order
                topLevel == SelectSeq(allComments, LAMBDA c : c.parentId = Null)
                RepliesOf(parentId) ==
                    LET rs == Sort(SelectSeq(allComments,
                                             LAMBDA c : c.parentId # Null /\ c.parentId = parentId),
                                   OldestFirst)
                    IN  [i \in DOMAIN rs |-> CommentWithUser(s, rs[i], << >>)]
            IN  [i \in DOMAIN topLevel |->
                   CommentWithUser(s, topLevel[i], RepliesOf(topLevel[i].id))]
    IN  { [s |-> s, val |-> Tree(allComments)] : allComments \in OrderBy(joined, NewestFirst) }

\* -------------------------------------------------------------------- ads
\* new Date().toISOString().split('T')[0]: the calendar day of a clock value
TicksPerDay == 2

Today(t) == t \div TicksPerDay

\* the possible results of getRandomAd(): no ad, or the ad at a random index
MemStorage_getRandomAd(s) ==
    IF Len(s.ads) = 0 THEN {<< >>}
    ELSE {<<s.ads[randomIndex]>> : randomIndex \in DOMAIN s.ads}

DatabaseStorage_getRandomAd(s) ==
    LET count == Len(s.ads) IN
    IF count = 0 THEN {<< >>}
    ELSE {SubSeq(s.ads, randomOffset + 1, randomOffset + 1) : randomOffset \in 0 .. count - 1}

\* viewedAt is set but never read, it is left out of the row
NewAdView(s, userId, sessionId, adId, viewedDate) ==
    [ id |-> s.adViewIdCounter, userId |-> userId, sessionId |-> sessionId,
      adId |-> adId, viewedDate |-> viewedDate ]

\* variant: the row is stored without the user id
MemStorage_createAdView_NoUser(s, userId, sessionId, adId, viewedDate) ==
    LET newAdView == NewAdView(s, Null, sessionId, adId, viewedDate)
    IN  [ s   |-> [s EXCEPT !.adViews = Append(@, newAdView), !.adViewIdCounter = @ + 1],
          val |-> newAdView ]

MemStorage_createAdView(s, userId, sessionId, adId, viewedDate) ==
    LET newAdView == NewAdView(s, userId, sessionId, adId, viewedDate)
    IN  [ s   |-> [s EXCEPT !.adViews = Append(@, newAdView), !.adViewIdCounter = @ + 1],
          val |-> newAdView ]

DatabaseStorage_createAdView(s, userId, sessionId, adId, viewedDate) ==
    LET adView == NewAdView(s, userId, sessionId, adId, viewedDate)
    IN  [ s   |-> [s EXCEPT !.adViews = Append(@, adView), !.adViewIdCounter = @ + 1],
          val |-> adView ]

MemStorage_getAdViewCountForDay(s, sessionId, date) ==
    Len(SelectSeq(s.adViews, LAMBDA av : av.sessionId = sessionId /\ av.viewedDate = date))

DatabaseStorage_getAdViewCountForDay(s, sessionId, date) ==
    Cardinality({i \in DOMAIN s.adViews :
                    s.adViews[i].sessionId = sessionId /\ s.adViews[i].viewedDate = date})

\* ---------------------------------------------------------------- deletion
\* fs.unlinkSync of the video file and of the thumbnail, when the row names
\* them and they exist
UnlinkVideoFiles(files, video) == files \ {video.videoUrl, video.thumbnailUrl}

MemStorage_deleteVideo(s, id) ==
    IF ~HasId(s.videos, id) THEN [s |-> s, val |-> FALSE]
    ELSE LET video   == RowOfId(s.videos, id)
             videos1 == SelectSeq(s.videos, LAMBDA v : v.id # id)
         IN  [ s   |-> [s EXCEPT !.files = UnlinkVideoFiles(@, video),
                                 !.videos = videos1,
                                 !.comments = SelectSeq(@, LAMBDA comment : comment.videoId # id)],
               val |-> Len(videos1) # Len(s.videos) ]

DatabaseStorage_deleteVideo(s, id) ==
    IF ~HasId(s.videos, id) THEN [s |-> s, val |-> FALSE]
    ELSE LET video == RowOfId(s.videos, id)
         IN  [ s   |-> [s EXCEPT !.files = UnlinkVideoFiles(@, video),
                                 !.comments = SelectSeq(@, LAMBDA c : c.videoId # id),
                                 !.videos = SelectSeq(@, LAMBDA v : v.id # id)],
               val |-> TRUE ]

\* the users after the loop over userFollows: every relation of id lowers the
\* counter of its other party by one, never below zero; keep is the set of
\* users the loop can find
FollowCountsWithout(s, id, keep) ==
    [u \in DOMAIN s.users |->
        IF u \notin keep THEN s.users[u]
        ELSE [s.users[u] EXCEPT
                !.followersCount = Max(0, @ - Cardinality(FollowRows(s, id, u))),
                !.followingCount = Max(0, @ - Cardinality(FollowRows(s, u, id)))]]

Without(users, id) == [u \in DOMAIN users \ {id} |-> users[u]]

\* variant: the follow rows are removed without touching the counters
MemStorage_deleteUser_KeepCounters(s, id) ==
    LET users1 == Without(s.users, id)
    IN  [ s   |-> [s EXCEPT
                     !.users    = users1,
                     !.videos   = SelectSeq(@, LAMBDA video : video.userId # id),
                     !.comments = SelectSeq(@, LAMBDA comment : comment.userId # id),
                     !.follows  = {f \in @ : f.followerId # id /\ f.followingId # id}],
          val |-> DOMAIN users1 # DOMAIN s.users ]

MemStorage_deleteUser(s, id) ==
    LET users1 == Without(s.users, id)      \* the user is removed before the loop
        users2 == FollowCountsWithout([s EXCEPT !.users = users1], id, DOMAIN users1)
    IN  [ s   |-> [s EXCEPT
                     !.users    = users2,
                     !.videos   = SelectSeq(@, LAMBDA video : video.userId # id),
                     !.comments = SelectSeq(@, LAMBDA comment : comment.userId # id),
                     !.follows  = {f \in @ : f.followerId # id /\ f.followingId # id}],
          val |-> DOMAIN users1 # DOMAIN s.users ]

DatabaseStorage_deleteUser(s, id) ==
    LET users1    == FollowCountsWithout(s, id, DOMAIN s.users)
        follows1  == {f \in s.follows : ~(f.followerId = id \/ f.followingId = id)}
        comments1 == SelectSeq(s.comments, LAMBDA c : c.userId # id)
        userVideos == {s.videos[i].id : i \in {j \in DOMAIN s.videos : s.videos[j].userId = id}}
        \* this.deleteVideo(video.id) for each of them
        comments2 == SelectSeq(comments1, LAMBDA c : c.videoId \notin userVideos)
        videos2   == SelectSeq(s.videos, LAMBDA v : v.id \notin userVideos)
        files2    == s.files \ UNION { {s.videos[i].videoUrl, s.videos[i].thumbnailUrl} :
                                          i \in {j \in DOMAIN s.videos : s.videos[j].userId = id} }
    IN  [ s   |-> [s EXCEPT !.users = Without(users1, id), !.follows = follows1,
                            !.comments = comments2, !.videos = videos2, !.files = files2],
          val |-> UserExists(s, id) ]

\* ---------------------------------------------------------------- uploads
\* multer names every upload after the clock and a random number; the n-th
\* upload is file 2n of server/videos and its thumbnail is file 2n + 1
VideoFile(n) == 2 * n

ThumbnailFile(n) == 2 * n + 1

\* createVideo can fail: MemStorage has pushed the row when saveData throws,
\* DatabaseStorage's single insert leaves no row
MemStorage_createVideo(s, userId, isPrivate, videoUrl, thumbnailUrl) ==
    LET r == createVideoOf(s, userId, isPrivate, videoUrl, thumbnailUrl) IN
    { [s |-> r.s, val |-> r.val, threw |-> FALSE],
      [s |-> r.s, val |-> r.val, threw |-> TRUE] }

DatabaseStorage_createVideo(s, userId, isPrivate, videoUrl, thumbnailUrl) ==
    LET r == createVideoOf(s, userId, isPrivate, videoUrl, thumbnailUrl) IN
    { [s |-> r.s, val |-> r.val, threw |-> FALSE],
      [s |-> s,   val |-> r.val, threw |-> TRUE] }

\* --------------------------------------------------------------- counters
\* the methods that add one to a counter of a row
CounterMethods == {"incrementVideoViews", "likeVideo", "dislikeVideo", "likeComment"}

\* the table a method works on
CounterTable(s, method) == IF method = "likeComment" THEN s.comments ELSE s.videos

\* row.counter || 0
CounterValue(row, method) ==
    CASE method = "incrementVideoViews" -> row.views
      [] method = "likeVideo"           -> row.likes
      [] method = "dislikeVideo"        -> row.dislikes
      [] method = "likeComment"         -> row.likes

\* the row with its counter set
WithCounter(row, method, value) ==
    CASE method = "incrementVideoViews" -> [row EXCEPT !.views = value]
      [] method = "likeVideo"           -> [row EXCEPT !.likes = value]
      [] method = "dislikeVideo"        -> [row EXCEPT !.dislikes = value]
      [] method = "likeComment"         -> [row EXCEPT !.likes = value]

\* db.update(table).set({counter: value}).where(eq(table.id, id))
UpdateCounter(s, method, id, value) ==
    LET Set(rows) == [i \in DOMAIN rows |->
                        IF rows[i].id = id THEN WithCounter(rows[i], method, value) ELSE rows[i]]
    IN  IF method = "likeComment" THEN [s EXCEPT !.comments = Set(@)]
        ELSE [s EXCEPT !.videos = Set(@)]

\* MemStorage: find the row and counter++ in one synchronous stretch
MemStorage_increment(s, method, id) ==
    IF ~HasId(CounterTable(s, method), id) THEN [s |-> s, val |-> FALSE]
    ELSE [ s   |-> UpdateCounter(s, method, id,
                                 CounterValue(RowOfId(CounterTable(s, method), id), method) + 1),
           val |-> TRUE ]

\* ------------------------------------------- createComment, step by step
\* db.transaction: select the video for update and add one to commentsCount
DatabaseStorage_createComment_transaction(s, videoId) ==
    LET video == SelectSeq(s.videos, LAMBDA v : v.id = videoId)
    IN  IF Len(video) > 0
        THEN [s EXCEPT !.videos[IndexOfId(s.videos, videoId)].commentsCount =
                           video[1].commentsCount + 1]
        ELSE s

\* db.insert(comments).values(...).returning(), after the transaction
DatabaseStorage_createComment_insert(s, videoId, userId, parentId) ==
    LET comment == NewComment(s, videoId, userId, parentId)
    IN  [ s   |-> [s EXCEPT !.comments = Append(@, comment), !.commentIdCounter = @ + 1],
          val |-> comment ]

\* ------------------------------------- follow / unfollow, step by step
\* DatabaseStorage.follow, db.transaction: both users are read for update and
\* their counters raised
DatabaseStorage_follow_transaction(s, followerId, followingId) ==
    LET follower  == SelectUser(s, followerId)
        following == SelectUser(s, followingId)
        users1 == IF Len(follower) > 0
                  THEN [s.users EXCEPT ![followerId].followingCount = follower[1].followingCount + 1]
                  ELSE s.users
        users2 == IF Len(following) > 0
                  THEN [users1 EXCEPT ![followingId].followersCount = following[1].followersCount + 1]
                  ELSE users1
    IN  [s EXCEPT !.users = users2]

\* DatabaseStorage.follow, db.insert(follows) after the transaction
DatabaseStorage_follow_insert(s, followerId, followingId) ==
    LET newFollow == NewFollow(s, followerId, followingId)
    IN  [ s   |-> [s EXCEPT !.follows = @ \cup {newFollow}, !.followIdCounter = @ + 1],
          val |-> newFollow ]

\* DatabaseStorage.unfollow, db.transaction: counters lowered (not below
\* zero) and the rows of the pair deleted
DatabaseStorage_unfollow_transaction(s, followerId, followingId) ==
    LET follower  == SelectUser(s, followerId)
        following == SelectUser(s, followingId)
        users1 == IF Len(follower) > 0 /\ follower[1].followingCount > 0
                  THEN [s.users EXCEPT ![followerId].followingCount = follower[1].followingCount - 1]
                  ELSE s.users
        users2 == IF Len(following) > 0 /\ following[1].followersCount > 0
                  THEN [users1 EXCEPT ![followingId].followersCount = following[1].followersCount - 1]
                  ELSE users1
    IN  [s EXCEPT !.users = users2, !.follows = @ \ FollowRows(s, followerId, followingId)]

\* ------------------------------------------------------------ user videos
\* the possible results of getUserVideos(userId)
MemStorage_getUserVideos(s, userId) ==
    IF ~UserExists(s, userId) THEN {<< >>}
    ELSE LET sorted == Sort(SelectSeq(s.videos, LAMBDA video : video.userId = userId), NewestFirst)
         IN  { [i \in DOMAIN sorted |-> WithUser(s, sorted[i])] }

DatabaseStorage_getUserVideos(s, userId) ==
    LET joined == SelectSeq(s.videos, LAMBDA v : UserExists(s, v.userId) /\ v.userId = userId)
    IN  { [i \in DOMAIN ordered |-> WithUser(s, ordered[i])] : ordered \in OrderBy(joined, NewestFirst) }

\* `storage` is whichever implementation the module exports
storage_follow(s, a, b) ==
    IF backend = "mem" THEN MemStorage_follow(s, a, b) ELSE DatabaseStorage_follow(s, a, b)

storage_unfollow(s, a, b) ==
    IF backend = "mem" THEN MemStorage_unfollow(s, a, b) ELSE DatabaseStorage_unfollow(s, a, b)

storage_getVideos(s, limit, offset) ==
    IF backend = "mem" THEN MemStorage_getVideos(s, limit, offset)
    ELSE DatabaseStorage_getVideos(s, limit, offset)

storage_incrementVideoViews(s, id) ==
    IF backend = "mem" THEN MemStorage_incrementVideoViews(s, id)
    ELSE DatabaseStorage_incrementVideoViews(s, id)

storage_createComment(s, videoId, userId, parentId) ==
    IF backend = "mem" THEN MemStorage_createComment(s, videoId, userId, parentId)
    ELSE DatabaseStorage_createComment(s, videoId, userId, parentId)

storage_deleteComment(s, id) ==
    IF backend = "mem" THEN MemStorage_deleteComment(s, id)
    ELSE DatabaseStorage_deleteComment(s, id)

storage_getVideoComments(s, videoId) ==
    IF backend = "mem" THEN MemStorage_getVideoComments(s, videoId)
    ELSE DatabaseStorage_getVideoComments(s, videoId)

storage_getRandomAd(s) ==
    IF backend = "mem" THEN MemStorage_getRandomAd(s) ELSE DatabaseStorage_getRandomAd(s)

storage_createAdView(s, userId, sessionId, adId, viewedDate) ==
    IF backend = "mem" THEN MemStorage_createAdView(s, userId, sessionId, adId, viewedDate)
    ELSE DatabaseStorage_createAdView(s, userId, sessionId, adId, viewedDate)

storage_getAdViewCountForDay(s, sessionId, date) ==
    IF backend = "mem" THEN MemStorage_getAdViewCountForDay(s, sessionId, date)
    ELSE DatabaseStorage_getAdViewCountForDay(s, sessionId, date)

storage_deleteVideo(s, id) ==
    IF backend = "mem" THEN MemStorage_deleteVideo(s, id) ELSE DatabaseStorage_deleteVideo(s, id)

storage_deleteUser(s, id) ==
    IF backend = "mem" THEN MemStorage_deleteUser(s, id) ELSE DatabaseStorage_deleteUser(s, id)

storage_createVideo(s, userId, isPrivate, videoUrl, thumbnailUrl) ==
    IF backend = "mem" THEN MemStorage_createVideo(s, userId, isPrivate, videoUrl, thumbnailUrl)
    ELSE DatabaseStorage_createVideo(s, userId, isPrivate, videoUrl, thumbnailUrl)

\* --------------------------------------------------------------- actions
CreateUser ==
    /\ store.userIdCounter <= MaxUsers
    /\ LET r == createUser(store) IN
         /\ store' = r.s
         /\ res' = Result("createUser", 0, r.val.id)
    /\ UNCHANGED <<backend, now, calls, client>>

\* storage.follow / storage.unfollow called directly
StorageFollow(a, b) ==
    /\ LET r == storage_follow(store, a, b) IN
         /\ r.s.followIdCounter <= MaxFollows + 1
         /\ store' = r.s
         /\ res' = Result("follow", 0, r.val)
    /\ UNCHANGED <<backend, now, calls, client>>

StorageUnfollow(a, b) ==
    /\ LET r == storage_unfollow(store, a, b) IN
         /\ store' = r.s
         /\ res' = Result("unfollow", 0, r.val)
    /\ UNCHANGED <<backend, now, calls, client>>

Follow == \E a, b \in UserIds : StorageFollow(a, b)

FollowExisting == \E a, b \in DOMAIN store.users : StorageFollow(a, b)

Unfollow == \E a, b \in UserIds : StorageUnfollow(a, b)

\* ------------------------------------------------------- route layer: auth
\* authenticateUser: the session's userId must be set and name an existing user
Authenticated(s, sess) == sess # Null /\ UserExists(s, sess)

\* req.session.userId: unset, or the id of a registered user
SessionIds == {Null} \cup DOMAIN store.users

Respond(op, status, val) ==
    /\ store' = store
    /\ res' = Result(op, status, val)

\* POST /api/users/:id/follow
PostFollow(sess, followingId) ==
    LET op == "POST /api/users/:id/follow" IN
    /\ IF ~Authenticated(store, sess) THEN Respond(op, 401, Null)
       ELSE IF followingId = sess THEN Respond(op, 400, Null)
       ELSE IF ~UserExists(store, followingId) THEN Respond(op, 404, Null)
       ELSE LET r == storage_follow(store, sess, followingId) IN
              /\ r.s.followIdCounter <= MaxFollows + 1
              /\ store' = r.s
              /\ res' = Result(op, 201, r.val)
    /\ UNCHANGED <<backend, now, calls, client>>

\* DELETE /api/users/:id/follow
DeleteFollow(sess, followingId) ==
    LET op == "DELETE /api/users/:id/follow" IN
    /\ IF ~Authenticated(store, sess) THEN Respond(op, 401, Null)
       ELSE LET r == storage_unfollow(store, sess, followingId) IN
              /\ store' = r.s
              /\ res' = Result(op, IF r.val THEN 200 ELSE 404, r.val)
    /\ UNCHANGED <<backend, now, calls, client>>

RouteFollow == \E sess \in SessionIds, id \in UserIds : PostFollow(sess, id)

RouteUnfollow == \E sess \in SessionIds, id \in UserIds : DeleteFollow(sess, id)

\* ------------------------------------------------------------ feed actions
Tick ==
    /\ now < MaxTime
    /\ now' = now + 1
    /\ res' = NoRes
    /\ UNCHANGED <<backend, store, calls, client>>

\* storage.createVideo on behalf of a logged-in user (POST /api/videos)
StorageCreateVideo(userId, isPrivate) ==
    /\ store.videoIdCounter <= MaxVideos
    /\ LET r == createVideo(store, userId, isPrivate) IN
         /\ store' = r.s
         /\ res' = Result("createVideo", 0, r.val.id)
    /\ UNCHANGED <<backend, now, calls, client>>

CreateVideo == \E userId \in DOMAIN store.users, isPrivate \in BOOLEAN :
                  StorageCreateVideo(userId, isPrivate)

CreatePublicVideo == \E userId \in DOMAIN store.users : StorageCreateVideo(userId, FALSE)

\* GET /api/videos?limit=&offset=
GetVideos ==
    /\ \E limit \in 0 .. MaxLimit, offset \in 0 .. MaxLimit :
         \E r \in storage_getVideos(store, limit, offset) :
           /\ store' = r.s
           /\ res' = Result("GET /api/videos", 200, r.val)
    /\ UNCHANGED <<backend, now, calls, client>>

\* the view requests served so far
RECURSIVE TotalViews(_)
TotalViews(rows) == IF rows = << >> THEN 0 ELSE Head(rows).views + TotalViews(Tail(rows))

\* GET /api/videos/:id
GetVideo(sess, videoId) ==
    LET op    == "GET /api/videos/:id"
        video == getVideoWithUser(store, videoId)
    IN
    /\ IF video = << >> THEN Respond(op, 404, Null)
       ELSE IF video[1].isPrivate /\ (sess = Null \/ sess # video[1].userId)
       THEN Respond(op, 403, Null)
       ELSE LET r == storage_incrementVideoViews(store, videoId) IN
              /\ TotalViews(store.videos) < MaxViews
              /\ store' = r.s
              /\ res' = Result(op, 200, video[1])
    /\ UNCHANGED <<backend, now, calls, client>>

RouteGetVideo == \E sess \in SessionIds, videoId \in VideoIds : GetVideo(sess, videoId)

\* the feed: videos are created over time and listed page by page
NextFeed == CreateUser \/ Tick \/ CreatePublicVideo \/ GetVideos

SpecFeed == Init /\ [][NextFeed]_vars

\* viewing single videos
NextView == CreateUser \/ CreateVideo \/ RouteGetVideo

SpecView == Init /\ [][NextView]_vars

\* --------------------------------------------------------- comment actions
\* POST /api/videos/:id/comments; parentId is req.body.parentId (Null when falsy)
PostComment(sess, videoId, parentId) ==
    LET op == "POST /api/videos/:id/comments" IN
    /\ IF ~Authenticated(store, sess) THEN Respond(op, 401, Null)
       ELSE IF ~HasId(store.videos, videoId) THEN Respond(op, 404, Null)
       ELSE LET r == storage_createComment(store, videoId, sess, parentId) IN
              /\ store.commentIdCounter <= MaxComments
              /\ store' = r.s
              /\ res' = Result(op, 201, r.val)
    /\ UNCHANGED <<backend, now, calls, client>>

StorageDeleteComment(id) ==
    /\ LET r == storage_deleteComment(store, id) IN
         /\ store' = r.s
         /\ res' = Result("deleteComment", 0, r.val)
    /\ UNCHANGED <<backend, now, calls, client>>

\* GET /api/videos/:id/comments
GetVideoComments(videoId) ==
    /\ \E r \in storage_getVideoComments(store, videoId) :
         /\ store' = r.s
         /\ res' = Result("GET /api/videos/:id/comments", 200, r.val)
    /\ UNCHANGED <<backend, now, calls, client>>

RoutePostComment ==
    \E sess \in SessionIds, videoId \in VideoIds, parentId \in {Null} \cup CommentIds :
        PostComment(sess, videoId, parentId)

DeleteComment == \E id \in CommentIds : StorageDeleteComment(id)

RouteGetVideoComments == \E videoId \in VideoIds : GetVideoComments(videoId)

\* the users registered and the videos uploaded before the comments are written
Fixture ==
    LET users  == [u \in 1 .. MaxAuthors |->
                     [id |-> u, followersCount |-> 0, followingCount |-> 0]]
        videos == [v \in 1 .. MaxVideos |->
                     [ id |-> v, userId |-> 1, isPrivate |-> FALSE,
                       views |-> 0, likes |-> 0, dislikes |-> 0, commentsCount |-> 0,
                       createdAt |-> 1, user |-> Null,
                       videoUrl |-> Null, thumbnailUrl |-> Null ]]
    IN  [EmptyStore EXCEPT !.users = users, !.userIdCounter = MaxAuthors + 1,
                           !.videos = videos, !.videoIdCounter = MaxVideos + 1]

InitComments ==
    /\ backend \in Backends
    /\ store = Fixture
    /\ now = 1
    /\ res = NoRes
    /\ calls = NoCalls
    /\ client = NoClient

NextComments == RoutePostComment \/ DeleteComment

SpecComments == InitComments /\ [][NextComments]_vars

\* the comment tables getVideoComments is applied to: rows 1 .. n of video 1,
\* each a top-level comment or a reply to any id of the table (its own
\* included, the route does not look at parentId), with creation times that
\* are distinct and in any order relative to the position in the table
CommentTables ==
    UNION { { [i \in 1 .. n |->
                 [ id |-> i, videoId |-> 1, userId |-> 1, parentId |-> parent[i],
                   likes |-> 0, createdAt |-> time[i] ]] :
              parent \in [1 .. n -> {Null} \cup (1 .. n)],
              time \in Permutations(1 .. n) } : n \in 0 .. MaxRows }

InitTree ==
    /\ backend \in Backends
    /\ \E rows \in CommentTables :
         store = [Fixture EXCEPT !.comments = rows, !.commentIdCounter = Len(rows) + 1]
    /\ now = MaxRows + 1
    /\ res = NoRes
    /\ calls = NoCalls
    /\ client = NoClient

NextTree == RouteGetVideoComments

SpecTree == InitTree /\ [][NextTree]_vars

\* ---------------------------------------------------------------- ad actions
ClientIds == 1 .. MaxSessions

\* Math.random(), in tenths
RandomTenths == 0 .. 9

\* variant: the cap is compared with > instead of >=
GetRandomAd_CapExclusive(sess, sessionId) ==
    LET op == "GET /api/ads/random"
        today == Today(now)
        adViewCount == storage_getAdViewCountForDay(store, sessionId, today)
    IN
    /\ IF adViewCount > AdDailyCap THEN Respond(op, 204, Null)
       ELSE \E draw \in RandomTenths :
              IF draw < AdChanceTenths
              THEN \E ad \in storage_getRandomAd(store) :
                     IF Len(ad) > 0
                     THEN LET r == storage_createAdView(
                                       store, IF Authenticated(store, sess) THEN sess ELSE Null,
                                       sessionId, ad[1].id, today) IN
                            /\ r.s.adViewIdCounter <= MaxAdViews + 1
                            /\ store' = r.s
                            /\ res' = Result(op, 200, ad[1])
                     ELSE Respond(op, 204, Null)
              ELSE Respond(op, 204, Null)
    /\ UNCHANGED <<backend, now, calls, client>>

\* GET /api/ads/random, for the request of session sessionId (req.session.clientId)
GetRandomAd(sess, sessionId) ==
    LET op == "GET /api/ads/random"
        today == Today(now)
        adViewCount == storage_getAdViewCountForDay(store, sessionId, today)
    IN
    /\ IF adViewCount >= AdDailyCap THEN Respond(op, 204, Null)
       ELSE \E draw \in RandomTenths :
              IF draw < AdChanceTenths
              THEN \E ad \in storage_getRandomAd(store) :
                     IF Len(ad) > 0
                     THEN LET r == storage_createAdView(
                                       store, IF Authenticated(store, sess) THEN sess ELSE Null,
                                       sessionId, ad[1].id, today) IN
                            /\ r.s.adViewIdCounter <= MaxAdViews + 1
                            /\ store' = r.s
                            /\ res' = Result(op, 200, ad[1])
                     ELSE Respond(op, 204, Null)
              ELSE Respond(op, 204, Null)
    /\ UNCHANGED <<backend, now, calls, client>>

RouteGetRandomAd == \E sess \in SessionIds, sessionId \in ClientIds : GetRandomAd(sess, sessionId)

\* the ads table is filled outside the program (IStorage has no operation that
\* creates an ad): it is empty or holds one ad
AdTables == { [i \in 1 .. n |-> [id |-> i]] : n \in 0 .. 1 }

InitAds ==
    /\ backend \in Backends
    /\ \E ads \in AdTables : store = [EmptyStore EXCEPT !.ads = ads]
    /\ now = 1
    /\ res = NoRes
    /\ calls = NoCalls
    /\ client = NoClient

NextAds == Tick \/ RouteGetRandomAd

SpecAds == InitAds /\ [][NextAds]_vars

\* ------------------------------------------------------- deletion actions
StorageDeleteUser(id) ==
    /\ LET r == storage_deleteUser(store, id) IN
         /\ store' = r.s
         /\ res' = Result("deleteUser", 0, r.val)
    /\ UNCHANGED <<backend, now, calls, client>>

StorageDeleteVideo(id) ==
    /\ LET r == storage_deleteVideo(store, id) IN
         /\ store' = r.s
         /\ res' = Result("deleteVideo", 0, r.val)
    /\ UNCHANGED <<backend, now, calls, client>>

DeleteUser == \E id \in UserIds : StorageDeleteUser(id)

DeleteVideo == \E id \in VideoIds : StorageDeleteVideo(id)

\* follows between existing users, and users leaving
NextDeleteUser == CreateUser \/ FollowExisting \/ DeleteUser

SpecDeleteUser == Init /\ [][NextDeleteUser]_vars

\* the comment tables of up to MaxComments rows, in creation order, whose rows
\* belong to the given videos and authors; a parentId is null or any id of the table
CommentTablesOf(videoIds, userIds) ==
    UNION { { [i \in 1 .. n |->
                 [ id |-> i, videoId |-> video[i], userId |-> user[i],
                   parentId |-> parent[i], likes |-> 0, createdAt |-> i ]] :
              video \in [1 .. n -> videoIds], user \in [1 .. n -> userIds],
              parent \in [1 .. n -> {Null} \cup (1 .. n)] } : n \in 0 .. MaxComments }

\* an id no user row has (comments.userId carries no foreign key)
MissingUser == MaxAuthors + 1

\* comments of video 1 written by the registered users or by a missing one
InitAuthors ==
    /\ backend \in Backends
    /\ \E rows \in CommentTablesOf({1}, (1 .. MaxAuthors) \cup {MissingUser}) :
         store = [Fixture EXCEPT !.comments = rows, !.commentIdCounter = Len(rows) + 1]
    /\ now = MaxComments + 1
    /\ res = NoRes
    /\ calls = NoCalls
    /\ client = NoClient

NextAuthors == RouteGetVideoComments

SpecAuthors == InitAuthors /\ [][NextAuthors]_vars

\* comments of any video, with any parentId, written by the first user
InitThreads ==
    /\ backend \in Backends
    /\ \E rows \in CommentTablesOf(VideoIds, {1}) :
         store = [Fixture EXCEPT !.comments = rows, !.commentIdCounter = Len(rows) + 1]
    /\ now = MaxComments + 1
    /\ res = NoRes
    /\ calls = NoCalls
    /\ client = NoClient

NextThreads == RouteGetVideoComments

SpecThreads == InitThreads /\ [][NextThreads]_vars

\* ------------------------------------------------------ comment moderation
\* variant: the author check is missing
DeleteCommentRequest_AnyRequester(sess, commentId) ==
    LET op == "DELETE /api/comments/:id" IN
    /\ IF ~Authenticated(store, sess) THEN Respond(op, 401, Null)
       ELSE IF ~HasId(store.comments, commentId) THEN Respond(op, 404, Null)
       ELSE LET r == storage_deleteComment(store, commentId) IN
              /\ store' = r.s
              /\ res' = Result(op, IF r.val THEN 200 ELSE 500, Null)
    /\ UNCHANGED <<backend, now, calls, client>>

\* DELETE /api/comments/:id
DeleteCommentRequest(sess, commentId) ==
    LET op == "DELETE /api/comments/:id" IN
    /\ IF ~Authenticated(store, sess) THEN Respond(op, 401, Null)
       ELSE IF ~HasId(store.comments, commentId) THEN Respond(op, 404, Null)
       ELSE IF RowOfId(store.comments, commentId).userId # sess THEN Respond(op, 403, Null)
       ELSE LET r == storage_deleteComment(store, commentId) IN
              /\ store' = r.s
              /\ res' = Result(op, IF r.val THEN 200 ELSE 500, Null)
    /\ UNCHANGED <<backend, now, calls, client>>

RouteDeleteComment ==
    \E sess \in SessionIds, commentId \in CommentIds : DeleteCommentRequest(sess, commentId)

\* MaxUsers registered users and their comments on video 1
InitModeration ==
    /\ backend \in Backends
    /\ \E rows \in CommentTablesOf({1}, 1 .. MaxUsers) :
         store = [Fixture EXCEPT
                    !.users = [u \in 1 .. MaxUsers |->
                                 [id |-> u, followersCount |-> 0, followingCount |-> 0]],
                    !.userIdCounter = MaxUsers + 1,
                    !.comments = rows,
                    !.commentIdCounter = Len(rows) + 1,
                    !.videos = [i \in DOMAIN Fixture.videos |->
                                  [Fixture.videos[i] EXCEPT !.commentsCount =
                                      Cardinality({j \in DOMAIN rows :
                                                      rows[j].videoId = Fixture.videos[i].id})]]]
    /\ now = MaxComments + 1
    /\ res = NoRes
    /\ calls = NoCalls
    /\ client = NoClient

NextModeration == RouteDeleteComment

SpecModeration == InitModeration /\ [][NextModeration]_vars

\* ------------------------------------------------------- comment bodies
\* req.body.content: absent, or a string (a sequence of characters)
Undefined == [type |-> "undefined"]

Str(chars) == [type |-> "string", chars |-> chars]

Contents == {Undefined, Str(<< >>), Str(<<" ">>), Str(<<"a">>), Str(<<" ", "a">>)}

\* insertCommentSchema.parse: content is z.string(), any string passes
ZodParseOk(content) == content.type = "string"

\* POST /api/videos/:id/comments with the request body given; the content of
\* a stored comment is not kept in the modelled row
PostCommentBody(sess, videoId, content, parentId) ==
    LET op == "POST /api/videos/:id/comments" IN
    /\ IF ~Authenticated(store, sess) THEN Respond(op, 401, Null)
       ELSE IF ~HasId(store.videos, videoId) THEN Respond(op, 404, Null)
       ELSE IF ~ZodParseOk(content) THEN Respond(op, 400, Null)
       ELSE LET r == storage_createComment(store, videoId, sess, parentId) IN
              /\ store.commentIdCounter <= MaxComments
              /\ store' = r.s
              /\ res' = Result(op, 201, r.val)
    /\ UNCHANGED <<backend, now, calls, client>>

\* a top-level comment or a reply to the first comment, for a video that
\* exists or the first id that does not
RoutePostCommentBody ==
    \E sess \in SessionIds, videoId \in 1 .. MaxVideos + 1,
       content \in Contents, parentId \in {Null, 1} :
        PostCommentBody(sess, videoId, content, parentId)

NextPostComment == RoutePostCommentBody

SpecPostComment == InitComments /\ [][NextPostComment]_vars

\* ---------------------------------------------------- ads, signed-in viewers
\* the ads table is empty or holds the ads 1 .. n
AdCatalogs == { [i \in 1 .. n |-> [id |-> i]] : n \in 0 .. 2 }

\* the registered users poll for ads too, at any one time of the clock
InitAdViewers ==
    /\ backend \in Backends
    /\ \E ads \in AdCatalogs : store = [Fixture EXCEPT !.ads = ads]
    /\ now \in 1 .. MaxTime
    /\ res = NoRes
    /\ calls = NoCalls
    /\ client = NoClient

\* ad requests while at most MaxAdRows rows have been recorded
RouteGetRandomAdRecorded ==
    /\ RouteGetRandomAd
    /\ store'.adViewIdCounter <= MaxAdRows + 1

NextAdViewers == RouteGetRandomAdRecorded

SpecAdViewers == InitAdViewers /\ [][NextAdViewers]_vars

\* ------------------------------------------------------ POST /api/videos
ffmpegLoaded == TRUE

\* the catch block of the route: forgets the thumbnail
CleanUpUpload_KeepThumbnail(files, videoFile, thumbnailUrl) ==
    files \ {videoFile}

\* the catch block of the route: unlinks the upload, and the thumbnail when
\* one was generated and exists
CleanUpUpload(files, videoFile, thumbnailUrl) ==
    (files \ {videoFile}) \ (IF thumbnailUrl # Null THEN {thumbnailUrl} ELSE {})

\* title of the multipart body: missing or a string
Titles == {Undefined, Str(<<"a">>)}

\* what ffprobe reports for the upload (metadata.format.duration || 0)
Durations == {0, DurationLimit, DurationLimit + 1}

PostVideo(sess, hasFile, probeFails, duration, thumbnailOk, title, isPrivate) ==
    LET op           == "POST /api/videos"
        n            == store.uploadCounter
        videoFile    == VideoFile(n)
        uploaded     == [store EXCEPT !.files = @ \cup {videoFile}, !.uploadCounter = @ + 1]
        thumbnailUrl == IF ffmpegLoaded /\ thumbnailOk THEN ThumbnailFile(n) ELSE Null
        generated    == [uploaded EXCEPT !.files = @ \cup ({thumbnailUrl} \ {Null})]
    IN
    /\ store.uploadCounter <= MaxUploads
    /\ IF ~Authenticated(store, sess) THEN Respond(op, 401, Null)
       ELSE IF ~hasFile THEN Respond(op, 400, Null)
       ELSE IF ffmpegLoaded /\ ~probeFails /\ duration > DurationLimit
       THEN /\ store' = [uploaded EXCEPT !.files = @ \ {videoFile}]
            /\ res' = Result(op, 400, Null)
       ELSE IF ~ZodParseOk(title)
       THEN /\ store' = [generated EXCEPT !.files = CleanUpUpload(@, videoFile, thumbnailUrl)]
            /\ res' = Result(op, 400, Null)
       ELSE \E r \in storage_createVideo(generated, sess, isPrivate, videoFile, thumbnailUrl) :
              IF r.threw
              THEN /\ store' = [r.s EXCEPT !.files = CleanUpUpload(@, videoFile, thumbnailUrl)]
                   /\ res' = Result(op, 500, Null)
              ELSE /\ store' = r.s
                   /\ res' = Result(op, 201, r.val.id)
    /\ UNCHANGED <<backend, now, calls, client>>

RoutePostVideo ==
    \E sess \in SessionIds, hasFile, probeFails, thumbnailOk, isPrivate \in BOOLEAN,
       duration \in Durations, title \in Titles :
         PostVideo(sess, hasFile, probeFails, duration, thumbnailOk, title, isPrivate)

DeleteStoredVideo ==
    \E id \in {store.videos[i].id : i \in DOMAIN store.videos} : StorageDeleteVideo(id)

InitUpload ==
    /\ backend \in {"mem", "db"}
    /\ store = [Fixture EXCEPT !.videos = << >>, !.videoIdCounter = 1]
    /\ now = 1
    /\ res = NoRes
    /\ calls = NoCalls
    /\ client = NoClient

NextUpload == RoutePostVideo \/ DeleteStoredVideo

SpecUpload == InitUpload /\ [][NextUpload]_vars

\* users and videos leaving while other users' comments sit on the videos
NextCascade == DeleteUser \/ DeleteVideo

SpecCascade == InitModeration /\ [][NextCascade]_vars

\* -------------------------------------------- counter requests in flight
\* a request enters incrementVideoViews / likeVideo / dislikeVideo /
\* likeComment.  MemStorage finishes the call before anything else runs;
\* DatabaseStorage awaits getVideo / getComment and is suspended with the row
\* it has read.
BeginIncrement(r, method, id) ==
    /\ calls[r].pc = "idle"
    /\ IF backend = "mem"
       THEN LET done == MemStorage_increment(store, method, id) IN
              /\ store' = done.s
              /\ calls' = [calls EXCEPT ![r] = [pc |-> "done", method |-> method, id |-> id, value |-> 0]]
              /\ res' = Result(method, 0, done.val)
       ELSE IF ~HasId(CounterTable(store, method), id)
       THEN /\ store' = store
            /\ calls' = [calls EXCEPT ![r] = [pc |-> "done", method |-> method, id |-> id, value |-> 0]]
            /\ res' = Result(method, 0, FALSE)
       ELSE /\ store' = store
            /\ calls' = [calls EXCEPT ![r] =
                           [ pc |-> "update", method |-> method, id |-> id,
                             value |-> CounterValue(RowOfId(CounterTable(store, method), id), method) ]]
            /\ res' = res
    /\ UNCHANGED <<backend, now, client>>

\* DatabaseStorage resumes: update ... set counter = (value read) + 1
FinishIncrement(r) ==
    /\ calls[r].pc = "update"
    /\ store' = UpdateCounter(store, calls[r].method, calls[r].id, calls[r].value + 1)
    /\ calls' = [calls EXCEPT ![r].pc = "done"]
    /\ res' = Result(calls[r].method, 0, TRUE)
    /\ UNCHANGED <<backend, now, client>>

Begin == \E r \in Requests, method \in CounterMethods : BeginIncrement(r, method, 1)

Finish == \E r \in Requests : FinishIncrement(r)

\* video 1 with one comment, every counter at its default
InitCounters ==
    /\ backend \in Backends
    /\ store = [Fixture EXCEPT
                  !.comments = << [ id |-> 1, videoId |-> 1, userId |-> 1, parentId |-> Null,
                                    likes |-> 0, createdAt |-> 1 ] >>,
                  !.commentIdCounter = 2,
                  !.videos[1].commentsCount = 1]
    /\ now = 1
    /\ res = NoRes
    /\ calls = NoCalls
    /\ client = NoClient

NextCounters == Begin \/ Finish

SpecCounters == InitCounters /\ [][NextCounters]_vars

\* ------------------------------------------ createComment calls in flight
\* a request enters createComment.  MemStorage pushes the row and counts it
\* before anything else runs, and saveData may throw afterwards;
\* DatabaseStorage commits the counting transaction (or fails in it) and is
\* suspended before the insert.
BeginCreateComment(r, videoId, userId) ==
    /\ calls[r].pc = "idle"
    /\ IF backend = "mem"
       THEN \E threw \in BOOLEAN :
              LET done == MemStorage_createComment(store, videoId, userId, Null) IN
              /\ store' = done.s
              /\ calls' = [calls EXCEPT ![r] = [pc |-> "done", method |-> "createComment",
                                                id |-> videoId, value |-> userId]]
              /\ res' = Result("createComment", 0, IF threw THEN Null ELSE done.val.id)
       ELSE \E threw \in BOOLEAN :
              IF threw
              THEN /\ store' = store
                   /\ calls' = [calls EXCEPT ![r] = [pc |-> "done", method |-> "createComment",
                                                     id |-> videoId, value |-> userId]]
                   /\ res' = Result("createComment", 0, Null)
              ELSE /\ store' = DatabaseStorage_createComment_transaction(store, videoId)
                   /\ calls' = [calls EXCEPT ![r] = [pc |-> "insert", method |-> "createComment",
                                                     id |-> videoId, value |-> userId]]
                   /\ res' = res
    /\ UNCHANGED <<backend, now, client>>

\* DatabaseStorage resumes with the insert, which succeeds or throws
FinishCreateComment(r) ==
    /\ calls[r].pc = "insert"
    /\ \E threw \in BOOLEAN :
         IF threw
         THEN /\ store' = store
              /\ res' = Result("createComment", 0, Null)
         ELSE LET done == DatabaseStorage_createComment_insert(store, calls[r].id,
                                                              calls[r].value, Null) IN
              /\ store' = done.s
              /\ res' = Result("createComment", 0, done.val.id)
    /\ calls' = [calls EXCEPT ![r].pc = "done"]
    /\ UNCHANGED <<backend, now, client>>

BeginComment ==
    \E r \in Requests, videoId \in VideoIds, userId \in DOMAIN store.users :
        BeginCreateComment(r, videoId, userId)

FinishComment == \E r \in Requests : FinishCreateComment(r)

NextCreateComment == BeginComment \/ FinishComment

SpecCreateComment == InitComments /\ [][NextCreateComment]_vars

\* -------------------------------------- follow / unfollow calls in flight
\* where a call stands, with the pair it is about
CallAt(pc, method, followerId, followingId) ==
    [pc |-> pc, method |-> method, id |-> followerId, value |-> followingId]

\* a request enters follow.  MemStorage runs the whole call before anything
\* else does; DatabaseStorage awaits its select of the pair and is suspended.
BeginFollow(r, followerId, followingId) ==
    /\ calls[r].pc = "idle"
    /\ IF backend = "mem"
       THEN LET done == MemStorage_follow(store, followerId, followingId) IN
              /\ store' = done.s
              /\ calls' = [calls EXCEPT ![r] = CallAt("done", "follow", followerId, followingId)]
              /\ res' = Result("follow", 0, done.val.id)
       ELSE LET existing == FollowRows(store, followerId, followingId) IN
              /\ store' = store
              /\ IF existing # {}
                 THEN /\ calls' = [calls EXCEPT ![r] = CallAt("done", "follow", followerId, followingId)]
                      /\ res' = Result("follow", 0, FirstRow(existing).id)
                 ELSE /\ calls' = [calls EXCEPT ![r] =
                                      CallAt("transaction", "follow", followerId, followingId)]
                      /\ res' = res
    /\ UNCHANGED <<backend, now, client>>

\* DatabaseStorage.follow resumes: the transaction commits or fails, then the
\* insert succeeds or fails
StepFollow(r) ==
    /\ calls[r].method = "follow"
    /\ \E threw \in BOOLEAN :
         CASE calls[r].pc = "transaction" ->
                IF threw
                THEN /\ store' = store
                     /\ calls' = [calls EXCEPT ![r].pc = "done"]
                     /\ res' = Result("follow", 0, Null)
                ELSE /\ store' = DatabaseStorage_follow_transaction(store, calls[r].id, calls[r].value)
                     /\ calls' = [calls EXCEPT ![r].pc = "insert"]
                     /\ res' = res
           [] calls[r].pc = "insert" ->
                IF threw
                THEN /\ store' = store
                     /\ calls' = [calls EXCEPT ![r].pc = "done"]
                     /\ res' = Result("follow", 0, Null)
                ELSE LET done == DatabaseStorage_follow_insert(store, calls[r].id, calls[r].value) IN
                     /\ store' = done.s
                     /\ calls' = [calls EXCEPT ![r].pc = "done"]
                     /\ res' = Result("follow", 0, done.val.id)
           [] OTHER -> FALSE
    /\ UNCHANGED <<backend, now, client>>

\* a request enters unfollow
BeginUnfollow(r, followerId, followingId) ==
    /\ calls[r].pc = "idle"
    /\ IF backend = "mem"
       THEN LET done == MemStorage_unfollow(store, followerId, followingId) IN
              /\ store' = done.s
              /\ calls' = [calls EXCEPT ![r] = CallAt("done", "unfollow", followerId, followingId)]
              /\ res' = Result("unfollow", 0, done.val)
       ELSE /\ store' = store
            /\ IF FollowRows(store, followerId, followingId) = {}
               THEN /\ calls' = [calls EXCEPT ![r] = CallAt("done", "unfollow", followerId, followingId)]
                    /\ res' = Result("unfollow", 0, FALSE)
               ELSE /\ calls' = [calls EXCEPT ![r] =
                                    CallAt("transaction", "unfollow", followerId, followingId)]
                    /\ res' = res
    /\ UNCHANGED <<backend, now, client>>

\* DatabaseStorage.unfollow resumes: its one transaction commits or fails
StepUnfollow(r) ==
    /\ calls[r].method = "unfollow"
    /\ calls[r].pc = "transaction"
    /\ \E threw \in BOOLEAN :
         IF threw
         THEN /\ store' = store
              /\ res' = Result("unfollow", 0, Null)
         ELSE /\ store' = DatabaseStorage_unfollow_transaction(store, calls[r].id, calls[r].value)
              /\ res' = Result("unfollow", 0, TRUE)
    /\ calls' = [calls EXCEPT ![r].pc = "done"]
    /\ UNCHANGED <<backend, now, client>>

\* the registered users, nobody following anybody
InitFollowCalls ==
    /\ backend \in Backends
    /\ store = [EmptyStore EXCEPT
                  !.users = [u \in 1 .. MaxUsers |->
                               [id |-> u, followersCount |-> 0, followingCount |-> 0]],
                  !.userIdCounter = MaxUsers + 1]
    /\ now = 1
    /\ res = NoRes
    /\ calls = NoCalls
    /\ client = NoClient

\* the route refuses a follow of oneself: requests are about two users
NextFollowCalls ==
    \/ \E r \in Requests, a \in DOMAIN store.users :
          \E b \in DOMAIN store.users \ {a} : BeginFollow(r, a, b)
    \/ \E r \in Requests : StepFollow(r)
    \/ \E r \in Requests, a \in DOMAIN store.users :
          \E b \in DOMAIN store.users \ {a} : BeginUnfollow(r, a, b)
    \/ \E r \in Requests : StepUnfollow(r)

SpecFollowCalls == InitFollowCalls /\ [][NextFollowCalls]_vars

\* ------------------------------------------------- ad requests in flight
\* variant: the count of today's views is not compared with the cap
BeginAdRequest_NoCap(r, sessionId) ==
    LET op    == "GET /api/ads/random"
        today == Today(now)
        adViewCount == storage_getAdViewCountForDay(store, sessionId, today)
    IN
    /\ calls[r].pc = "idle"
    /\ \E draw \in RandomTenths :
         IF draw < AdChanceTenths
         THEN \E ad \in storage_getRandomAd(store) :
                IF Len(ad) = 0 THEN Respond(op, 204, Null) /\ calls' = calls
                ELSE IF backend = "mem"
                THEN LET done == storage_createAdView(store, Null, sessionId, ad[1].id, today) IN
                       /\ Len(store.adViews) <= MaxAdViews
                       /\ store' = done.s
                       /\ res' = Result(op, 200, ad[1])
                       /\ calls' = calls
                ELSE /\ store' = store
                     /\ res' = res
                     /\ calls' = [calls EXCEPT ![r] =
                                     [pc |-> "createAdView", method |-> op,
                                      id |-> ad[1].id, value |-> sessionId]]
         ELSE Respond(op, 204, Null) /\ calls' = calls
    /\ UNCHANGED <<backend, now, client>>

\* an anonymous GET /api/ads/random enters the route.  With MemStorage no
\* await of the handler waits for anything, the request is served in one
\* stretch; with DatabaseStorage it is suspended after the count and the
\* choice of the ad, before createAdView.
BeginAdRequest(r, sessionId) ==
    LET op    == "GET /api/ads/random"
        today == Today(now)
        adViewCount == storage_getAdViewCountForDay(store, sessionId, today)
    IN
    /\ calls[r].pc = "idle"
    /\ IF adViewCount >= AdDailyCap THEN Respond(op, 204, Null) /\ calls' = calls
       ELSE \E draw \in RandomTenths :
         IF draw < AdChanceTenths
         THEN \E ad \in storage_getRandomAd(store) :
                IF Len(ad) = 0 THEN Respond(op, 204, Null) /\ calls' = calls
                ELSE IF backend = "mem"
                THEN LET done == storage_createAdView(store, Null, sessionId, ad[1].id, today) IN
                       /\ Len(store.adViews) <= MaxAdViews
                       /\ store' = done.s
                       /\ res' = Result(op, 200, ad[1])
                       /\ calls' = calls
                ELSE /\ store' = store
                     /\ res' = res
                     /\ calls' = [calls EXCEPT ![r] =
                                     [pc |-> "createAdView", method |-> op,
                                      id |-> ad[1].id, value |-> sessionId]]
         ELSE Respond(op, 204, Null) /\ calls' = calls
    /\ UNCHANGED <<backend, now, client>>

\* the suspended request resumes: createAdView, then res.json(ad)
FinishAdRequest(r) ==
    /\ calls[r].pc = "createAdView"
    /\ Len(store.adViews) <= MaxAdViews
    /\ LET done == storage_createAdView(store, Null, calls[r].value, calls[r].id, Today(now)) IN
         /\ store' = done.s
         /\ res' = Result(calls[r].method, 200, [id |-> calls[r].id])
    /\ calls' = [calls EXCEPT ![r] = IdleCall]
    /\ UNCHANGED <<backend, now, client>>

NextAdCalls ==
    \/ \E r \in Requests, sessionId \in ClientIds : BeginAdRequest(r, sessionId)
    \/ \E r \in Requests : FinishAdRequest(r)

\* no or one ad, at any one time of the clock
InitAdCalls ==
    /\ backend \in Backends
    /\ \E ads \in AdTables : store = [EmptyStore EXCEPT !.ads = ads]
    /\ now \in 1 .. MaxTime
    /\ res = NoRes
    /\ calls = NoCalls
    /\ client = NoClient

SpecAdCalls == InitAdCalls /\ [][NextAdCalls]_vars

\* every storage operation that creates or removes comment rows
NextStorageOps == RoutePostComment \/ DeleteComment \/ DeleteUser \/ DeleteVideo

SpecStorageOps == InitModeration /\ [][NextStorageOps]_vars

\* ------------------------------------------------------- client: the feed
\* the items of the rendered sequence: a video, or the string 'ad'
VideoItem(id) == [type |-> "video", id |-> id]

AdItem == [type |-> "ad", id |-> Null]

\* useAds.showAd with the adAlreadyShown of the render that created it and
\* the value Math.random() returns
showAd(adAlreadyShown, rand) ==
    IF adAlreadyShown THEN FALSE
    ELSE rand <= ShowAdChanceTenths

\* variant: the position test is made on the index, not on index + 1
Splice_OnIndex(acc, video, index, adAlreadyShown, rand) ==
    LET pushed == Append(acc, VideoItem(video)) IN
    IF index > 0 /\ index % AdEvery = 0 /\ showAd(adAlreadyShown, rand)
    THEN Append(pushed, AdItem)
    ELSE pushed

\* the callback of allVideos.reduce: push the video, then possibly 'ad'
Splice(acc, video, index, adAlreadyShown, rand) ==
    LET pushed == Append(acc, VideoItem(video)) IN
    IF index > 0 /\ (index + 1) % AdEvery = 0 /\ showAd(adAlreadyShown, rand)
    THEN Append(pushed, AdItem)
    ELSE pushed

\* allVideos.reduce(..., []) over the first n videos; rands[i] is what
\* Math.random() returns if showAd draws at the i-th video (it can only at
\* every AdEvery-th)
RECURSIVE Reduce(_, _, _, _)
Reduce(allVideos, adAlreadyShown, rands, n) ==
    IF n = 0 THEN << >>
    ELSE Splice(Reduce(allVideos, adAlreadyShown, rands, n - 1),
                allVideos[n], n - 1, adAlreadyShown,
                IF n \in DOMAIN rands THEN rands[n] ELSE 0)

\* setAllVideos: a fetched video that is not yet in the list is appended; the
\* server lists newest first, so its id is below the ids already there
SetAllVideos ==
    /\ Len(client.allVideos) < MaxFeed
    /\ \E id \in 1 .. MaxFeed :
         /\ \A i \in DOMAIN client.allVideos : id < client.allVideos[i]
         /\ client' = [client EXCEPT !.allVideos = Append(@, id)]
    /\ UNCHANGED <<backend, store, now, res, calls>>

\* one render of Home.  React applies the queued setAdAlreadyShown(true)
\* before it runs the component; videosWithAds is then computed with the
\* adAlreadyShown of this render, which the setAdAlreadyShown(true) of a
\* showAd call does not change: it is queued for the next render.
Render ==
    /\ \E rands \in [{i \in DOMAIN client.allVideos : i % AdEvery = 0} -> RandomTenths] :
         LET n              == Len(client.allVideos)
             adAlreadyShown == client.adAlreadyShown \/ client.queued
             shown == {i \in DOMAIN rands : i - 1 > 0 /\ showAd(adAlreadyShown, rands[i])}
         IN  /\ client' = [client EXCEPT
                             !.adAlreadyShown = adAlreadyShown,
                             !.videosWithAds = Reduce(client.allVideos, adAlreadyShown, rands, n),
                             !.shown = shown,
                             !.queued = shown # {}]
    /\ UNCHANGED <<backend, store, now, res, calls>>

\* the 5-minute timer of useAds fires: setAdAlreadyShown(false)
ResetAdAlreadyShown ==
    /\ client.adAlreadyShown
    /\ client' = [client EXCEPT !.adAlreadyShown = FALSE]
    /\ UNCHANGED <<backend, store, now, res, calls>>

NextClient == SetAllVideos \/ Render \/ ResetAdAlreadyShown

SpecClient == Init /\ [][NextClient]_vars

\* ------------------------------------------------------- listing videos
\* GET /api/videos?limit=&offset= as sent by the browser whose session is
\* sess; the handler does not read req.user
ListVideos(sess, limit, offset) ==
    /\ \E r \in storage_getVideos(store, limit, offset) :
         /\ store' = r.s
         /\ res' = Result("GET /api/videos", 200, [requester |-> sess, videos |-> r.val])
    /\ UNCHANGED <<backend, now, calls, client>>

\* GET /api/users/:id/videos as sent by the browser whose session is sess;
\* the route has no authentication middleware
ListUserVideos(sess, userId) ==
    /\ \E videos \in (IF backend = "mem" THEN MemStorage_getUserVideos(store, userId)
                                         ELSE DatabaseStorage_getUserVideos(store, userId)) :
         /\ store' = store
         /\ res' = Result("GET /api/users/:id/videos", 200, [requester |-> sess, videos |-> videos])
    /\ UNCHANGED <<backend, now, calls, client>>

\* users upload public and private videos, and anybody reads
NextPrivacy ==
    \/ CreateUser
    \/ CreateVideo
    \/ RouteGetVideo
    \/ \E sess \in SessionIds, limit \in 1 .. MaxLimit : ListVideos(sess, limit, 0)
    \/ \E sess \in SessionIds, userId \in UserIds : ListUserVideos(sess, userId)

SpecPrivacy == Init /\ [][NextPrivacy]_vars

\* follow / unfollow between existing users only
NextFollow == CreateUser \/ FollowExisting \/ Unfollow \/ RouteFollow \/ RouteUnfollow

SpecFollow == Init /\ [][NextFollow]_vars

\* follow / unfollow with any ids, as IStorage accepts them
NextFollowAny == CreateUser \/ Follow \/ Unfollow

SpecFollowAny == Init /\ [][NextFollowAny]_vars

\* ================================================================ claims
FollowersOf(s, u) == {f \in s.follows : f.followingId = u}
FollowingOf(s, u) == {f \in s.follows : f.followerId = u}

\* C1: after any sequence of follow / unfollow calls between existing users,
\* each user's followersCount is the number of Follow rows pointing to it,
\* its followingCount the number of Follow rows it owns, and neither is negative.
C1_CountersMatchFollowRows ==
    \A u \in DOMAIN store.users :
        /\ store.users[u].followersCount = Cardinality(FollowersOf(store, u))
        /\ store.users[u].followingCount = Cardinality(FollowingOf(store, u))
        /\ store.users[u].followersCount >= 0
        /\ store.users[u].followingCount >= 0

\* a follow has been undone while another relation is still counted
C1_Witness ==
    /\ res.op = "unfollow"
    /\ res.val = TRUE
    /\ \E u \in DOMAIN store.users : store.users[u].followersCount > 0

\* C4: a follow(a,b) that finds the relation present returns it and changes
\* nothing; one that does not creates exactly one row and raises a's
\* followingCount and b's followersCount by one; so two calls in a row leave
\* one row and one increment each.
C4_FollowIdempotent ==
    [][ \A a, b \in UserIds : (res'.op = "follow" /\ StorageFollow(a, b)) =>
          LET before == FollowRows(store, a, b)
              after  == FollowRows(store', a, b)
          IN  /\ Cardinality(after) = 1
              /\ res'.val \in after
              /\ IF before # {}
                 THEN store' = store /\ res'.val \in before
                 ELSE /\ store'.follows = store.follows \cup {res'.val}
                      /\ \A u \in DOMAIN store.users :
                           /\ store'.users[u].followingCount =
                                store.users[u].followingCount + (IF u = a THEN 1 ELSE 0)
                           /\ store'.users[u].followersCount =
                                store.users[u].followersCount + (IF u = b THEN 1 ELSE 0)
      ]_vars

\* a follow call between two users returned a relation that an earlier call had created
C4_Witness ==
    /\ res.op = "follow"
    /\ res.val.id < store.followIdCounter - 1
    /\ res.val.followerId # res.val.followingId
    /\ UserExists(store, res.val.followerId)
    /\ UserExists(store, res.val.followingId)
    /\ store.users[res.val.followingId].followersCount = 1

\* C5: self-follow is always rejected: no Follow row with
\* followerId = followingId is ever created (route and storage operation).
C5_NoSelfFollow ==
    \A f \in store.follows : f.followerId # f.followingId

\* C10: unfollow(a,b) without a Follow row (a,b) returns false and changes
\* nothing; with the row it returns true, removes the row and decrements
\* a's followingCount and b's followersCount, floored at zero.
C10_Unfollow ==
    [][ \A a, b \in UserIds : (res'.op = "unfollow" /\ StorageUnfollow(a, b)) =>
          LET rows == FollowRows(store, a, b)
          IN  IF rows = {}
              THEN res'.val = FALSE /\ store' = store
              ELSE /\ res'.val = TRUE
                   /\ store'.follows = store.follows \ rows
                   /\ DOMAIN store'.users = DOMAIN store.users
                   /\ \A u \in DOMAIN store.users :
                        /\ store'.users[u].followingCount =
                             (IF u = a THEN Max(0, store.users[u].followingCount - 1)
                                       ELSE store.users[u].followingCount)
                        /\ store'.users[u].followersCount =
                             (IF u = b THEN Max(0, store.users[u].followersCount - 1)
                                       ELSE store.users[u].followersCount)
      ]_vars

\* an unfollow removed a relation whose followee counter was already zero
\* while another relation still points to that followee
C10_Witness ==
    /\ res.op = "unfollow"
    /\ res.val = TRUE
    /\ \E u \in DOMAIN store.users :
         /\ store.users[u].followersCount = 0
         /\ FollowersOf(store, u) # {}

\* ------------------------------------------------------------------ feed
Ids(rows) == [i \in DOMAIN rows |-> rows[i].id]

DistinctTimes(rows) ==
    \A i, j \in DOMAIN rows : i # j => rows[i].createdAt # rows[j].createdAt

\* the videos, newest first (unique when the creation times are distinct)
NewestFirstOrdering(s) ==
    LET n == Len(s.videos) IN
    CHOOSE o \in [1 .. n -> 1 .. n] :
        /\ \A i, j \in 1 .. n : i # j => o[i] # o[j]
        /\ \A i, j \in 1 .. n : i < j => s.videos[o[i]].createdAt > s.videos[o[j]].createdAt

NewestFirstIds(s) == [i \in 1 .. Len(s.videos) |-> s.videos[NewestFirstOrdering(s)[i]].id]

\* positions offset .. offset+limit-1 (0-based) of the ordering
ExpectedPage(s, limit, offset) ==
    LET whole == NewestFirstIds(s) IN
    [i \in 1 .. Max(0, Min(limit, Len(whole) - offset)) |-> whole[offset + i]]

PageIds(s, limit, offset) == {Ids(r.val) : r \in storage_getVideos(s, limit, offset)}

\* pages k, k+1, ... of size limit, one after the other
RECURSIVE ConcatPages(_, _, _)
ConcatPages(s, limit, k) ==
    IF k * limit >= Len(s.videos) THEN << >>
    ELSE LET r == CHOOSE x \in storage_getVideos(s, limit, k * limit) : TRUE
         IN  Ids(r.val) \o ConcatPages(r.s, limit, k + 1)

SeqToSet(q) == {q[i] : i \in DOMAIN q}

\* C8: with distinct creation times getVideos(limit, offset) returns exactly
\* positions offset .. offset+limit-1 of the newest-first ordering; the pages
\* of one size are disjoint and concatenate to the whole ordering; an offset
\* at or past the end gives the empty list.
C8_GetVideosPages ==
    DistinctTimes(store.videos) =>
        /\ \A limit \in 0 .. MaxLimit, offset \in 0 .. MaxVideos + 1 :
             /\ PageIds(store, limit, offset) = {ExpectedPage(store, limit, offset)}
             /\ offset >= Len(store.videos) => PageIds(store, limit, offset) = {<< >>}
        /\ \A limit \in 1 .. MaxLimit :
             /\ ConcatPages(store, limit, 0) = NewestFirstIds(store)
             /\ Cardinality(SeqToSet(ConcatPages(store, limit, 0))) = Len(store.videos)
        /\ res.op = "GET /api/videos" =>
             /\ res.status = 200
             /\ \E limit \in 0 .. MaxLimit, offset \in 0 .. MaxLimit :
                  Ids(res.val) = ExpectedPage(store, limit, offset)

\* the second page of size one was fetched from two videos created at different times
C8_Witness ==
    /\ res.op = "GET /api/videos"
    /\ Len(store.videos) >= 2
    /\ DistinctTimes(store.videos)
    /\ Len(res.val) = 1
    /\ \E i \in DOMAIN store.videos : store.videos[i].createdAt > res.val[1].createdAt

\* ------------------------------------------------------------------ views
\* C9 as stated: every get-video request for an existing video increments its
\* views by one, whoever asks and whatever the private flag.
C9_ViewsAlwaysIncremented ==
    [][ \A sess \in SessionIds, id \in VideoIds :
          (res'.op = "GET /api/videos/:id" /\ HasId(store.videos, id) /\ GetVideo(sess, id)) =>
              RowOfId(store'.videos, id).views = RowOfId(store.videos, id).views + 1
      ]_vars

\* C9 amended: a get-video request answered with the video (the video is
\* public, or the requester is its owner) increments its views by exactly
\* one, on every request, and changes nothing else; a request for a private
\* video by anyone else is refused with 403 and changes nothing.
C9_ViewsIncrementedWhenServed ==
    [][ \A sess \in SessionIds, id \in VideoIds :
          (res'.op = "GET /api/videos/:id" /\ HasId(store.videos, id) /\ GetVideo(sess, id)) =>
              LET i == IndexOfId(store.videos, id)
                  v == store.videos[i]
              IN  IF v.isPrivate /\ sess # v.userId
                  THEN res'.status = 403 /\ store' = store
                  ELSE /\ res'.status = 200
                       /\ store' = [store EXCEPT !.videos[i].views = v.views + 1]
                       /\ store'.videos[i].likes = v.likes
                       /\ store'.videos[i].dislikes = v.dislikes
                       /\ store'.videos[i].commentsCount = v.commentsCount
      ]_vars

\* the owner of a private video fetched it for the second time
C9_Witness ==
    /\ res.op = "GET /api/videos/:id"
    /\ res.status = 200
    /\ res.val.isPrivate
    /\ RowOfId(store.videos, res.val.id).views = 2

\* --------------------------------------------------------------- comments
CommentsOfVideo(s, videoId) == {i \in DOMAIN s.comments : s.comments[i].videoId = videoId}

\* C2: after any sequence of addComment / deleteComment calls, every video's
\* commentsCount is the number of comment rows persisted with its videoId.
C2_CommentsCountMatchesRows ==
    \A i \in DOMAIN store.videos :
        store.videos[i].commentsCount = Cardinality(CommentsOfVideo(store, store.videos[i].id))

DirectReplies(s, id) == {i \in DOMAIN s.comments : s.comments[i].parentId = id}

\* C6: deleteComment on a top-level comment with N direct replies removes
\* exactly N+1 rows, the comment and its direct replies, and lowers the owning
\* video's commentsCount by N+1, or to zero if that would be negative.
C6_DeleteCommentCascade ==
    [][ \A id \in CommentIds :
          (res'.op = "deleteComment" /\ HasId(store.comments, id)
             /\ RowOfId(store.comments, id).parentId = Null /\ StorageDeleteComment(id)) =>
              LET c == RowOfId(store.comments, id)
                  N == Cardinality(DirectReplies(store, id))
                  v == IndexOfId(store.videos, c.videoId)
                  removed == {id} \cup {store.comments[i].id : i \in DirectReplies(store, id)}
              IN  /\ Len(store'.comments) = Len(store.comments) - (N + 1)
                  /\ SeqToSet(Ids(store'.comments)) = SeqToSet(Ids(store.comments)) \ removed
                  /\ store'.videos[v].commentsCount =
                        Max(0, store.videos[v].commentsCount - (N + 1))
                  /\ \A w \in DOMAIN store.videos :
                        w # v => store'.videos[w] = store.videos[w]
                  /\ res'.val = TRUE
      ]_vars

\* a top-level comment was deleted together with its reply, which was attached
\* to another video: that video still counts the reply, the comment's own video
\* was floored at zero
C6_Witness ==
    /\ res.op = "deleteComment"
    /\ res.val = TRUE
    /\ store.comments = << >>
    /\ \E i \in DOMAIN store.videos : store.videos[i].commentsCount = 1

StrictlyNewestFirst(rows) ==
    \A i, j \in DOMAIN rows : i < j => rows[i].createdAt > rows[j].createdAt

StrictlyOldestFirst(rows) ==
    \A i, j \in DOMAIN rows : i < j => rows[i].createdAt < rows[j].createdAt

\* the tree lists the top-level comments of the video newest first, each once,
\* and under each of them its replies oldest first, each once
OrderedTree(s, videoId, tree) ==
    /\ StrictlyNewestFirst(tree)
    /\ SeqToSet(Ids(tree)) =
          {s.comments[i].id : i \in {j \in CommentsOfVideo(s, videoId) :
                                        s.comments[j].parentId = Null}}
    /\ \A k \in DOMAIN tree :
          /\ StrictlyOldestFirst(tree[k].replies)
          /\ SeqToSet(Ids(tree[k].replies)) =
                {s.comments[i].id : i \in {j \in CommentsOfVideo(s, videoId) :
                                              s.comments[j].parentId = tree[k].id}}

\* C7: for every set of comments with distinct timestamps, getVideoComments
\* returns the video's top-level comments newest first and, under each of
\* them, its replies oldest first.
C7_CommentTreeOrdering ==
    DistinctTimes(store.comments) =>
        /\ \A videoId \in VideoIds :
              \A r \in storage_getVideoComments(store, videoId) :
                  r.s = store /\ OrderedTree(store, videoId, r.val)
        /\ res.op = "GET /api/videos/:id/comments" =>
              /\ StrictlyNewestFirst(res.val)
              /\ \A k \in DOMAIN res.val : StrictlyOldestFirst(res.val[k].replies)

\* the tree returned for a table that stores the older top-level comment first
\* and, under it, the newer reply first: both sorts had to reorder
C7_Witness ==
    /\ res.op = "GET /api/videos/:id/comments"
    /\ DistinctTimes(store.comments)
    /\ \E k \in DOMAIN res.val :
          /\ Len(res.val[k].replies) = 2
          /\ res.val[k].replies[1].id > res.val[k].replies[2].id

\* -------------------------------------------------------------------- ads
AdViewCount(s, sessionId, date) ==
    Cardinality({i \in DOMAIN s.adViews :
                    s.adViews[i].sessionId = sessionId /\ s.adViews[i].viewedDate = date})

AdDays == {Today(t) : t \in 1 .. MaxTime}

\* C3: requests being served one after the other, a /api/ads/random request
\* of a session that already has 5 or more AdView rows for today answers 204
\* whatever the draw is and records no row; hence no (session, day) ever has
\* more than 5 AdView rows.
C3_DailyAdCap ==
    /\ [](\A sessionId \in ClientIds, date \in AdDays :
             AdViewCount(store, sessionId, date) <= AdDailyCap)
    /\ [][ \A sess \in SessionIds, sessionId \in ClientIds :
             (/\ res'.op = "GET /api/ads/random"
              /\ AdViewCount(store, sessionId, Today(now)) >= AdDailyCap
              /\ GetRandomAd(sess, sessionId)) =>
                 /\ res'.status = 204
                 /\ res'.val = Null
                 /\ store' = store
       ]_vars

\* a request answered 204 while every session has its 5 rows for today
C3_Witness ==
    /\ res.op = "GET /api/ads/random"
    /\ res.status = 204
    /\ \A sessionId \in ClientIds : AdViewCount(store, sessionId, Today(now)) = AdDailyCap

\* --------------------------------------------------------------- deletion
\* C11: after deleteUser(u) no Follow row references u, and every remaining
\* user's followersCount / followingCount is the number of remaining Follow
\* rows pointing to it / owned by it.
C11_DeleteUserPurgesFollows ==
    [][ \A u \in UserIds : (res'.op = "deleteUser" /\ StorageDeleteUser(u)) =>
          /\ \A f \in store'.follows : f.followerId # u /\ f.followingId # u
          /\ u \notin DOMAIN store'.users
          /\ \A v \in DOMAIN store'.users :
               /\ store'.users[v].followersCount = Cardinality(FollowersOf(store', v))
               /\ store'.users[v].followingCount = Cardinality(FollowingOf(store', v))
      ]_vars

\* a user with relations was deleted: fewer Follow rows are left than were
\* ever created, and a remaining user is still followed
C11_Witness ==
    /\ res.op = "deleteUser"
    /\ res.val = TRUE
    /\ Cardinality(store.follows) < store.followIdCounter - 1
    /\ \E v \in DOMAIN store.users : store.users[v].followersCount = 1

\* the author projection a comment must carry
AuthorOf(s, c) == IF UserExists(s, c.userId) THEN c.userId ELSE UnknownUser

\* C12: getVideoComments omits no comment because its author is missing: every
\* top-level comment of the video is returned, and every reply under its
\* top-level comment, carrying the sentinel author when the userId matches
\* no user.
C12_MissingAuthorKept ==
    \A videoId \in VideoIds :
        \A r \in storage_getVideoComments(store, videoId) :
            \A i \in CommentsOfVideo(store, videoId) :
                LET c == store.comments[i] IN
                /\ c.parentId = Null =>
                      \E k \in DOMAIN r.val :
                          r.val[k].id = c.id /\ r.val[k].user = AuthorOf(store, c)
                /\ \A k \in DOMAIN r.val :
                      (c.parentId = r.val[k].id) =>
                          \E j \in DOMAIN r.val[k].replies :
                              /\ r.val[k].replies[j].id = c.id
                              /\ r.val[k].replies[j].user = AuthorOf(store, c)

\* the ids of the tree, top level first, then the replies of each node
RECURSIVE TreeIds(_)
TreeIds(tree) ==
    IF tree = << >> THEN << >>
    ELSE <<tree[1].id>> \o Ids(tree[1].replies) \o TreeIds(Tail(tree))

TopLevelIds(s, videoId) ==
    {s.comments[i].id : i \in {j \in CommentsOfVideo(s, videoId) : s.comments[j].parentId = Null}}

\* C13: the tree of getVideoComments(videoId) is two levels deep and holds each
\* comment at most once: its top level is all and only the video's comments
\* with null parentId, a reply is only under the top-level comment whose id
\* is its parentId, and a reply whose parentId is no top-level comment of the
\* video is nowhere in the tree.
C13_TreeShape ==
    \A videoId \in VideoIds :
        \A r \in storage_getVideoComments(store, videoId) :
            LET tree == r.val
                ids  == TreeIds(tree)
            IN  /\ Cardinality(SeqToSet(ids)) = Len(ids)
                /\ SeqToSet(Ids(tree)) = TopLevelIds(store, videoId)
                /\ \A k \in DOMAIN tree :
                     /\ tree[k].parentId = Null /\ tree[k].videoId = videoId
                     /\ \A j \in DOMAIN tree[k].replies :
                          /\ tree[k].replies[j].parentId = tree[k].id
                          /\ tree[k].replies[j].videoId = videoId
                          /\ tree[k].replies[j].replies = << >>
                /\ \A i \in CommentsOfVideo(store, videoId) :
                     LET c == store.comments[i] IN
                     (c.parentId # Null /\ c.parentId \notin TopLevelIds(store, videoId)) =>
                         c.id \notin SeqToSet(ids)

\* a tree was returned with one top-level comment while another comment of the
\* same video, whose parentId is no top-level comment of it, is left out
C13_Witness ==
    /\ res.op = "GET /api/videos/:id/comments"
    /\ Len(res.val) = 1
    /\ \E i \in DOMAIN store.comments :
         /\ store.comments[i].videoId = res.val[1].videoId
         /\ store.comments[i].parentId # Null
         /\ store.comments[i].parentId \notin TopLevelIds(store, res.val[1].videoId)
         /\ store.comments[i].id \notin SeqToSet(TreeIds(res.val))

\* C14: a delete-comment request by someone who is not the comment's author
\* is refused with 403 and changes nothing (the comment, its replies and the
\* video's commentsCount stay); a request for a comment that does not exist
\* answers 404 and changes nothing; so only the author's request deletes.
C14_OnlyAuthorDeletes ==
    [][ \A sess \in SessionIds, id \in CommentIds :
          (res'.op = "DELETE /api/comments/:id" /\ DeleteCommentRequest(sess, id)) =>
              /\ (Authenticated(store, sess) /\ ~HasId(store.comments, id)) =>
                    res'.status = 404 /\ store' = store
              /\ (Authenticated(store, sess) /\ HasId(store.comments, id)
                    /\ RowOfId(store.comments, id).userId # sess) =>
                    res'.status = 403 /\ store' = store
              /\ store' # store =>
                    /\ HasId(store.comments, id)
                    /\ RowOfId(store.comments, id).userId = sess
                    /\ res'.status = 200
      ]_vars

\* a request was refused with 403 while the comments are all still there
C14_Witness ==
    /\ res.op = "DELETE /api/comments/:id"
    /\ res.status = 403
    /\ Len(store.comments) = store.commentIdCounter - 1
    /\ Len(store.comments) > 0

\* String.prototype.trim on a sequence of characters
RECURSIVE TrimStart(_)
TrimStart(chars) ==
    IF chars # << >> /\ Head(chars) = " " THEN TrimStart(Tail(chars)) ELSE chars

RECURSIVE TrimEnd(_)
TrimEnd(chars) ==
    IF chars # << >> /\ chars[Len(chars)] = " "
    THEN TrimEnd(SubSeq(chars, 1, Len(chars) - 1)) ELSE chars

Trim(chars) == TrimEnd(TrimStart(chars))

\* C15: addComment is rejected with a client error, creates no row and leaves
\* commentsCount unchanged when the video does not exist or when the content
\* is missing or empty after trimming.
C15_AddCommentValidates ==
    [][ \A sess \in SessionIds, videoId \in 1 .. MaxVideos + 1,
           content \in Contents, parentId \in {Null, 1} :
          (/\ res'.op = "POST /api/videos/:id/comments"
           /\ PostCommentBody(sess, videoId, content, parentId)
           /\ \/ ~HasId(store.videos, videoId)
              \/ content.type # "string"
              \/ Trim(content.chars) = << >>) =>
              /\ res'.status \in 400 .. 499
              /\ store' = store
      ]_vars

FileReferenced(f) ==
    \E i \in DOMAIN store.videos : f \in {store.videos[i].videoUrl, store.videos[i].thumbnailUrl}

C17_FailedUploadLeavesNoFile ==
    /\ [](\A f \in store.files : FileReferenced(f))
    /\ [][(res'.op = "POST /api/videos" /\ res'.status # 201) => store'.files = store.files]_vars

\* an upload was written and createVideo failed: the directory is empty again
C17_Witness ==
    /\ res.op = "POST /api/videos"
    /\ res.status = 500
    /\ store.uploadCounter > 1
    /\ store.files = {}

\* C18: whenever a video is removed, by deleteVideo or as part of deleteUser,
\* all comments of that video are removed too, and in every state the videoId
\* of each comment is the id of an existing video.
C18_VideoRemovalCascades ==
    /\ [](\A i \in DOMAIN store.comments : HasId(store.videos, store.comments[i].videoId))
    /\ [][\A v \in VideoIds :
            (HasId(store.videos, v) /\ ~HasId(store'.videos, v))
               => \A i \in DOMAIN store'.comments : store'.comments[i].videoId # v]_vars

\* C19: view, like, dislike and comment-like requests on the same row that
\* interleave at their storage reads and writes lose no update: once all of
\* them have returned, each counter is higher than at the start (0) by the
\* number of requests that incremented it.
CallsOf(method) == {r \in Requests : calls[r].method = method}

C19_NoLostUpdate ==
    (\A r \in Requests : calls[r].pc \in {"idle", "done"})
        => \A method \in CounterMethods :
             CounterValue(RowOfId(CounterTable(store, method), 1), method)
                = Cardinality({r \in CallsOf(method) : calls[r].pc = "done"})

\* C20: createComment's increment of commentsCount and its insert of the row
\* are seen together: in no state, whether a call is suspended between its two
\* steps or has failed between them, has a video been counted a comment whose
\* row is absent, or does it hold a row that is not counted.
C20_CountAndRowTogether ==
    \A i \in DOMAIN store.videos :
        LET rows == Cardinality(CommentsOfVideo(store, store.videos[i].id)) IN
        /\ ~(store.videos[i].commentsCount > rows)
        /\ ~(rows > store.videos[i].commentsCount)

\* C21: follow and unfollow apply the Follow row and both counters as one
\* unit: in every state a reader can see between storage steps, and after a
\* step has failed, each user's followingCount is the number of Follow rows it
\* is the follower of and its followersCount the number it is followed in.
C21_FollowAppliedAsUnit ==
    \A u \in DOMAIN store.users :
        /\ store.users[u].followingCount = Cardinality({f \in store.follows : f.followerId = u})
        /\ store.users[u].followersCount = Cardinality({f \in store.follows : f.followingId = u})

\* C22: the pair (followerId, followingId) stays unique under concurrency:
\* follow(a, b) requests that interleave between the existence check and the
\* insert leave at most one Follow row for (a, b), hence one increment of each
\* counter for a later unfollow(a, b) to take back.
C22_PairStaysUnique ==
    \A a, b \in DOMAIN store.users : Cardinality(FollowRows(store, a, b)) <= 1

\* C23: the daily ad quota is a soft cap under concurrency: with at most
\* MaxRequests requests in flight at once, the AdView rows of a session for a
\* day can be more than 5 but never more than 5 + MaxRequests - 1.
C23_SoftCap ==
    \A sessionId \in ClientIds, date \in AdDays :
        AdViewCount(store, sessionId, date) <= AdDailyCap + MaxRequests - 1

\* requests that interleaved between the count and the insert took a session
\* past the cap, to the margin exactly
C23_Witness ==
    /\ backend = "db"
    /\ \E sessionId \in ClientIds :
         AdViewCount(store, sessionId, Today(now)) = AdDailyCap + MaxRequests - 1
    /\ \A r \in Requests : calls[r].pc = "idle"

\* C24: in every state reached through create-comment and delete-comment,
\* a comment with a non-null parentId references an existing comment that is
\* top-level and belongs to the same video (replies are nested one level).
C24_RepliesReferenceTopLevel ==
    \A i \in DOMAIN store.comments :
        store.comments[i].parentId # Null =>
            \E j \in DOMAIN store.comments :
                /\ store.comments[j].id = store.comments[i].parentId
                /\ store.comments[j].parentId = Null
                /\ store.comments[j].videoId = store.comments[i].videoId

\* C25: in every state reached through any sequence of storage operations,
\* deleteUser and deleteVideo included, each video's commentsCount is the
\* number of comment rows attached to the video, and is never negative.
C25_CommentsCountIsLiveRows ==
    \A i \in DOMAIN store.videos :
        /\ store.videos[i].commentsCount >= 0
        /\ Cardinality(CommentsOfVideo(store, store.videos[i].id)) = store.videos[i].commentsCount

\* ------------------------------------------------------------------ client
\* the positions of the rendered sequence that hold an ad
AdPositions == {k \in DOMAIN client.videosWithAds : client.videosWithAds[k].type = "ad"}

\* the videos of the rendered sequence, in order
VideosOnly == SelectSeq(client.videosWithAds, LAMBDA item : item.type = "video")

\* how many videos stand before position k of the rendered sequence
VideosBefore(k) ==
    Cardinality({j \in 1 .. k - 1 : client.videosWithAds[j].type = "video"})

\* C26: in the sequence the client builds, an ad item stands only right after
\* the video at zero-based index i with (i+1) % 3 = 0, and only where the ad
\* decision said show: no ad before the third video, no two ads side by side,
\* and the videos keep their order.
C26_AdsAfterEveryThirdVideo ==
    /\ \A k \in AdPositions :
          /\ k > 1
          /\ client.videosWithAds[k - 1].type = "video"
          /\ VideosBefore(k) >= AdEvery
          /\ VideosBefore(k) % AdEvery = 0
          /\ VideosBefore(k) \in client.shown
    /\ \A i \in client.shown :
          \E k \in AdPositions : VideosBefore(k) = i
    /\ [i \in DOMAIN VideosOnly |-> VideosOnly[i].id]
          = SubSeq(client.allVideos, 1, Len(VideosOnly))

\* six videos rendered with an ad after the sixth and none after the third
C26_Witness ==
    /\ Len(client.videosWithAds) = 2 * AdEvery + 1
    /\ AdPositions = {2 * AdEvery + 1}

\* C27: at most one ad is materialized per computation of the feed sequence:
\* over any number of videos showAd returns true at most once in one render,
\* and once it has returned true it returns false in every later render until
\* the 5-minute reset fires.
C27_OneAdPerCycle ==
    /\ [](Cardinality(client.shown) <= 1)
    /\ [][((client.adAlreadyShown \/ client.queued) /\ Render) => client'.shown = {}]_vars

\* C28: the two storage backends are interchangeable: started from the same
\* contents, each IStorage operation returns the same result under MemStorage
\* and under DatabaseStorage (the booleans of deleteComment, unfollow and
\* deleteUser and the trees of getVideoComments included) and leaves the same
\* rows and counters; hence so does every sequence of operations.
C28_BackendsInterchangeable ==
    /\ \A id \in CommentIds :
          MemStorage_deleteComment(store, id) = DatabaseStorage_deleteComment(store, id)
    /\ \A a, b \in UserIds :
          /\ MemStorage_follow(store, a, b) = DatabaseStorage_follow(store, a, b)
          /\ MemStorage_unfollow(store, a, b) = DatabaseStorage_unfollow(store, a, b)
    /\ \A v \in VideoIds :
          /\ MemStorage_deleteVideo(store, v) = DatabaseStorage_deleteVideo(store, v)
          /\ MemStorage_incrementVideoViews(store, v) = DatabaseStorage_incrementVideoViews(store, v)
          /\ MemStorage_getVideoComments(store, v) = DatabaseStorage_getVideoComments(store, v)
          /\ \A u \in UserIds, p \in {Null} \cup CommentIds :
                MemStorage_createComment(store, v, u, p) = DatabaseStorage_createComment(store, v, u, p)
    /\ \A id \in UserIds :
          MemStorage_deleteUser(store, id) = DatabaseStorage_deleteUser(store, id)

\* C29: no read operation discloses a private video to a requester other
\* than its owner: GET /api/videos/:id answers 403 and leaves views as they
\* are, and neither GET /api/videos nor GET /api/users/:id/videos returns a
\* private video to an anonymous requester or to another user.
C29_PrivateVideosStayPrivate ==
    /\ []((res.op \in {"GET /api/videos", "GET /api/users/:id/videos"}) =>
            \A i \in DOMAIN res.val.videos :
                res.val.videos[i].isPrivate => res.val.requester = res.val.videos[i].userId)
    /\ [][\A sess \in SessionIds, videoId \in VideoIds :
            (/\ res'.op = "GET /api/videos/:id"
             /\ HasId(store.videos, videoId)
             /\ RowOfId(store.videos, videoId).isPrivate
             /\ sess # RowOfId(store.videos, videoId).userId
             /\ GetVideo(sess, videoId))
               => res'.status = 403 /\ store' = store]_vars

\* C30: deleteComment(c) touches only the video of c: it removes no comment
\* row of another video and leaves the commentsCount of every other video
\* as it was, whatever comments createComment has produced.
C30_DeleteCommentFrame ==
    [][\A id \in CommentIds :
         (/\ res'.op = "deleteComment"
          /\ HasId(store.comments, id)
          /\ StorageDeleteComment(id))
            => LET c == RowOfId(store.comments, id) IN
               /\ \A i \in DOMAIN store.comments :
                     store.comments[i].videoId # c.videoId
                        => \E j \in DOMAIN store'.comments : store'.comments[j] = store.comments[i]
               /\ \A i \in DOMAIN store.videos :
                     store.videos[i].id # c.videoId
                        => \E j \in DOMAIN store'.videos : store'.videos[j] = store.videos[i]
      ]_vars

====
